---- MODULE Spec2Model ----
(***************************************************************************)
(* Model of the slack-langbuilder bridge: the event router                 *)
(* (slack_handler.py), the session store (session_manager.py), the flow    *)
(* registry (flow_manager.py) and the backend client (langflow_client.py). *)
(*                                                                         *)
(* Concurrency model.  The program is one asyncio event loop: a coroutine  *)
(* runs without interruption until it awaits something that really        *)
(* suspends (a Slack web call, an aiosqlite statement, an HTTP post, a     *)
(* sleep).  Every action below is the code executed by one task between    *)
(* two such suspension points.  Awaiting a coroutine that returns without  *)
(* suspending (get_bot_user_id once the id is cached) is not a suspension  *)
(* point.                                                                  *)
(*                                                                         *)
(* Store model.  Every aiosqlite call opens its own connection.  A SELECT  *)
(* outside a transaction reads the committed state.  The first UPDATE,     *)
(* INSERT or DELETE of a connection opens a transaction that holds the     *)
(* database write lock until commit, so the statements from the first      *)
(* write to the commit are one atomic action; a connection closed without  *)
(* commit rolls its writes back.                                           *)
(***************************************************************************)
EXTENDS Integers, Sequences, FiniteSets, TLC

\* ------------------------------------------------------------------ bounds
\* Number of task slots (event deliveries or direct store calls) of one run.
MaxTasks == 2
\* Largest value of the clock, in seconds.
MaxTime == 90
\* Largest number of session tokens uuid4 hands out in one run.
MaxUuid == 3
\* Largest value of the clock of the session store specification, in hours.
MaxHours == 36
\* Largest max_retries a LangflowClient is constructed with.
MaxClientRetries == 3

\* --------------------------------------------------------------- constants
\* self._dedup_window, in seconds.
dedup_window == 60
\* LangflowClientManager's default max_retries.
max_retries == 2
\* Settings.session_ttl_hours, the ttl of the periodic sweep.
session_ttl_hours == 24
\* format_for_slack's default max_length.
max_length_default == 3900

\* The clock advances in steps of half the suppression window.
TickSeconds == dedup_window \div 2
\* In the session store specification it advances by half the ttl.
TickHours == session_ttl_hours \div 2

TaskIds == 1..MaxTasks

\* ------------------------------------------------------------------- data
BotId == "UBOT"
Users == {"U1", BotId}
FlowNames == {"A", "B"}
Urls == {"u1", "u2"}
NoName == "none"

\* A FlowConfig; langflow_url stands for the triple (langflow_url, flow_id,
\* api_key), which is written and read as a whole.
NoFlow == [name |-> NoName, langflow_url |-> NoName, is_default |-> FALSE]

\* SessionInfo(session_id, flow_name, is_new); session_id 0 is "no session".
NoSession == [session_id |-> 0, flow_name |-> NoName, is_new |-> FALSE]

\* f"{channel}:{ts}": channel ids hold no colon, so the string is the pair.
make_message_key(channel, ts) == <<channel, ts>>
make_thread_key(channel_id, thread_ts) == <<channel_id, thread_ts>>
NoKey == <<NoName, 0>>

VARIABLES
    \* flow registry (SQLite tables flows and channel_flows)
    flows,              \* set of rows [name, langflow_url, is_default]
    channel_flows,      \* set of rows [channel_id, flow_name]
    \* session store (SQLite table sessions)
    sessions,           \* set of rows [thread_key, session_id, flow_name, created_at, updated_at]
    uuid_seq,           \* number of tokens uuid4 has handed out
    now,                \* the clock (time.time(), datetime.utcnow()), in seconds
    \* SlackHandler fields
    bot_user_id,        \* self._bot_user_id, NoName until auth_test has answered
    processing,         \* self._processing
    processed_messages, \* self._processed_messages: message key -> completion time
    bot_threads,        \* self._bot_threads
    clients,            \* LangflowClientManager._clients: flow name -> client
    \* configuration
    admin_users,        \* Settings.admin_users, parsed from ADMIN_USER_IDS
    \* the tasks of the event loop
    task,               \* task id -> its position and locals
    \* LangflowClient.run_flow of one call
    run,
    \* response_parser: one call of format_for_slack or of extract_message
    parser,
    \* main.py: the main coroutine, the periodic cleanup task, and the
    \* LangflowClient objects and HTTP clients by identity
    main

regVars == <<flows, channel_flows>>
sessVars == <<sessions, uuid_seq>>
dedupVars == <<processing, processed_messages>>
vars == <<flows, channel_flows, sessions, uuid_seq, now, bot_user_id, processing,
          processed_messages, bot_threads, clients, admin_users, task, run,
          parser, main>>

\* ------------------------------------------------------- flow registry reads
\* SELECT * FROM flows WHERE name = ?  (fetchone)
FlowRows(name) == {r \in flows : r.name = name}
get_flow(name) ==
    IF FlowRows(name) = {} THEN NoFlow ELSE CHOOSE r \in FlowRows(name) : TRUE

\* SELECT * FROM flows WHERE is_default = TRUE LIMIT 1
DefaultRows == {r \in flows : r.is_default}
get_default_flow ==
    IF DefaultRows = {} THEN NoFlow
    ELSE [(CHOOSE r \in DefaultRows : TRUE) EXCEPT !.is_default = TRUE]

\* SELECT flow_name FROM channel_flows WHERE channel_id = ?
get_channel_flow_name(channel_id) ==
    LET rows == {r \in channel_flows : r.channel_id = channel_id}
    IN IF rows = {} THEN NoName ELSE (CHOOSE r \in rows : TRUE).flow_name

\* ------------------------------------------------ flow registry transactions
\* An add_flow that inserts a default row without the UPDATE that unsets the
\* previous default.
add_flow_rows_keeping_default(name, langflow_url, is_default) ==
    flows \cup {[name |-> name, langflow_url |-> langflow_url,
                 is_default |-> is_default]}

\* add_flow: UPDATE (when is_default), INSERT, commit; the primary key on name
\* rejects a second row of that name (IntegrityError: the connection closes
\* without commit and the UPDATE is rolled back with it).
add_flow_ok(name) == FlowRows(name) = {}
add_flow_rows(name, langflow_url, is_default) ==
    LET cleared == IF is_default
                   THEN {[r EXCEPT !.is_default = FALSE] : r \in flows}
                   ELSE flows
    IN cleared \cup {[name |-> name, langflow_url |-> langflow_url,
                      is_default |-> is_default]}

\* An add_flow whose UPDATE of the defaults survives the rejected INSERT.
add_flow_rejected_rows_committed(is_default) ==
    IF is_default THEN {[r EXCEPT !.is_default = FALSE] : r \in flows} ELSE flows

\* add_flow, the INSERT rejected: return False inside the connection's
\* context, which closes without commit; the rows are those before the call.
add_flow_rejected_rows(is_default) == flows

\* update_flow: UPDATE flows SET ... WHERE name = ?
update_flow_rows(name, langflow_url) ==
    {IF r.name = name THEN [r EXCEPT !.langflow_url = langflow_url] ELSE r : r \in flows}

\* remove_flow: DELETE FROM channel_flows WHERE flow_name = ?; DELETE FROM flows
remove_flow_bindings(name) == {r \in channel_flows : r.flow_name # name}
remove_flow_rows(name) == {r \in flows : r.name # name}

\* set_default_flow, after its SELECT found the row:
\* UPDATE flows SET is_default = FALSE; UPDATE ... = TRUE WHERE name = ?
set_default_rows(name) ==
    {[r EXCEPT !.is_default = (r.name = name)] : r \in flows}

\* set_channel_flow: INSERT OR REPLACE INTO channel_flows (channel_id is the key)
set_channel_rows(channel_id, flow_name) ==
    {r \in channel_flows : r.channel_id # channel_id}
        \cup {[channel_id |-> channel_id, flow_name |-> flow_name]}

\* remove_channel_flow: DELETE FROM channel_flows WHERE channel_id = ?
remove_channel_rows(channel_id) == {r \in channel_flows : r.channel_id # channel_id}

\* --------------------------------------------------------- session store
SessionRows(thread_key) == {r \in sessions : r.thread_key = thread_key}

\* get_session's SELECT session_id, flow_name FROM sessions WHERE thread_key = ?
select_session(thread_key) ==
    IF SessionRows(thread_key) = {} THEN NoSession
    ELSE LET row == CHOOSE r \in SessionRows(thread_key) : TRUE
         IN [session_id |-> row.session_id, flow_name |-> row.flow_name,
             is_new |-> FALSE]

\* A get_session that returns the row without the UPDATE of updated_at.
touch_session_skipped(thread_key) == sessions

\* get_session's UPDATE sessions SET updated_at = ? WHERE thread_key = ?
touch_session(thread_key) ==
    {IF r.thread_key = thread_key THEN [r EXCEPT !.updated_at = now] ELSE r
        : r \in sessions}

\* A sessions table without UNIQUE on thread_key.
insert_session_ok_not_unique(thread_key) == TRUE

\* create_session's INSERT: thread_key is UNIQUE, a second row raises
\* IntegrityError.
insert_session_ok(thread_key) == SessionRows(thread_key) = {}
insert_session(thread_key, session_id, flow_name) ==
    sessions \cup {[thread_key |-> thread_key, session_id |-> session_id,
                    flow_name |-> flow_name, created_at |-> now,
                    updated_at |-> now]}

\* cleanup_old_sessions: DELETE FROM sessions WHERE updated_at < cutoff
expired_sessions(cutoff) == {r \in sessions : r.updated_at < cutoff}

\* ------------------------------------------------------------------ events
\* A message text is its sequence of whitespace-separated tokens; a text of
\* whitespace only is the empty sequence.
Mention(user_id) == "<@" \o user_id \o ">"

\* An inbound event; thread_ts 0 is the absent thread_ts.
NoEvent == [channel |-> NoName, ts |-> 0, thread_ts |-> 0, text |-> <<>>,
            user |-> NoName, channel_type |-> NoName, bot_id |-> NoName,
            subtype |-> NoName]

Ev(channel, ts, thread_ts, text, user, channel_type) ==
    [channel |-> channel, ts |-> ts, thread_ts |-> thread_ts, text |-> text,
     user |-> user, channel_type |-> channel_type, bot_id |-> NoName,
     subtype |-> NoName]

\* text.strip(): leading and trailing whitespace separates no token.
strip(text) == text

RECURSIVE remove_token(_, _)
remove_token(text, tok) ==
    IF text = <<>> THEN <<>>
    ELSE IF Head(text) = tok THEN remove_token(Tail(text), tok)
    ELSE <<Head(text)>> \o remove_token(Tail(text), tok)

\* _clean_message_text: re.sub("<@BOT>", "", text).strip()
clean_message_text(text, bot) == strip(remove_token(text, Mention(bot)))

\* str.lower() on the tokens of the model
lower(tok) ==
    CASE tok = "FLOWS" -> "flows"
      [] tok = "Help" -> "help"
      [] OTHER -> tok

\* COMMAND_PATTERN.match(text.strip()): ^(help|flows|channel)\b, IGNORECASE
CommandVerbs == {"help", "flows", "channel"}
\* A pattern compiled without IGNORECASE.
is_command_case_sensitive(text) == strip(text) # <<>> /\ Head(strip(text)) \in CommandVerbs

is_command(text) == strip(text) # <<>> /\ lower(Head(strip(text))) \in CommandVerbs

\* Settings.admin_users as configured, and Settings.is_admin
AdminUsers == {"U1"}

\* An is_admin without the shortcut for an empty admin list.
is_admin_listed(user_id) == user_id \in admin_users

is_admin(user_id) == IF admin_users = {} THEN TRUE ELSE user_id \in admin_users

\* ------------------------------------------------------------------- tasks
NoClient == [name |-> NoName, langflow_url |-> NoName]
NoCall == [flow |-> NoName, langflow_url |-> NoName, session_id |-> 0,
           message |-> <<>>]

\* The arguments of the store call a task is in.
NoArgs == [name |-> NoName, langflow_url |-> NoName, is_default |-> FALSE,
           channel_id |-> NoName, thread_ts |-> 0, hours |-> 0]

\* A task: pc is its suspension point, the next fields are the locals of
\* _handle_message (or of the direct call), the last ones record what the task
\* has done so far.
IdleTask ==
    [pc |-> "idle", entry |-> NoName, event |-> NoEvent, is_mention |-> FALSE,
     thread_key |-> NoKey, cleaned_text |-> <<>>, flow_config |-> NoFlow,
     session_info |-> NoSession, client |-> NoClient, notice |-> NoName,
     chunks |-> 0, sent |-> 0, raised |-> NoName, args |-> NoArgs,
     ret |-> FALSE, count |-> 0, cutoff |-> 0,
     \* history
     entered |-> FALSE, path |-> NoName, outcome |-> NoName,
     channel_flow |-> NoName, original |-> NoName, call |-> NoCall,
     response |-> NoName, posts |-> <<>>]

message_key_of(tk) == make_message_key(tk.event.channel, tk.event.ts)
\* thread_ts or ts
reply_ts(tk) == IF tk.event.thread_ts # 0 THEN tk.event.thread_ts ELSE tk.event.ts

\* _cleanup_processed_messages
cleanup_processed_messages(pm, current_time) ==
    LET cutoff == current_time - dedup_window
        expired == {k \in DOMAIN pm : pm[k] < cutoff}
    IN [k \in DOMAIN pm \ expired |-> pm[k]]

\* self._processed_messages[message_key] = time.time()
mark_processed(pm, key) ==
    [k \in DOMAIN pm \cup {key} |-> IF k = key THEN now ELSE pm[k]]

\* A task is in the processing section from processing.add (line 219) to the
\* end of the finally block (line 343).
InProcessing(t) == task[t].entered /\ task[t].pc # "done"

\* Task slots are taken in order.
Fresh(t) ==
    /\ task[t].pc = "idle"
    /\ \A u \in TaskIds : u < t => task[u].pc # "idle"

SetTask(t, tk) == task' = [task EXCEPT ![t] = tk]

\* A finished task keeps only the record of what it did.
Done(tk, outcome) ==
    [tk EXCEPT !.pc = "done", !.outcome = outcome, !.cleaned_text = <<>>,
               !.flow_config = NoFlow, !.client = NoClient, !.notice = NoName,
               !.chunks = 0, !.sent = 0]

\* A handler whose finally block records the key but leaves it in _processing.
Finally_keeping_key(t, tk, outcome) ==
    /\ UNCHANGED processing
    /\ processed_messages' = mark_processed(processed_messages, message_key_of(tk))
    /\ SetTask(t, Done(tk, outcome))

\* The finally block of _handle_message: processing.discard(message_key);
\* _processed_messages[message_key] = time.time().
Finally(t, tk, outcome) ==
    /\ processing' = processing \ {message_key_of(tk)}
    /\ processed_messages' = mark_processed(processed_messages, message_key_of(tk))
    /\ SetTask(t, Done(tk, outcome))

\* ---------------------------------------------------------------- commands
\* A store call returns: to the command that made it, which answers with
\* _send_message, or to the direct caller.
Reply(tk, msg) ==
    IF tk.entry = "handle_message"
    THEN [tk EXCEPT !.pc = "cmd_reply", !.notice = msg]
    ELSE Done(tk, msg)

\* clean_slack_formatting: <url> and <url|label> lose the decoration
clean_slack_formatting(text) ==
    CASE text = "<u1>" -> "u1"
      [] text = "<u2|label>" -> "u2"
      [] OTHER -> text

\* _cmd_flows up to its first await
cmd_flows(tk, args) ==
    IF args = <<>> THEN [tk EXCEPT !.pc = "list_flows"]
    ELSE LET subcommand == lower(args[1]) IN
        IF subcommand = "add" THEN
            IF ~is_admin(tk.event.user) THEN Reply(tk, "no_permission")
            ELSE IF Len(args) < 5 THEN Reply(tk, "usage")
            ELSE [tk EXCEPT !.pc = "add_flow", !.args.name = args[2],
                            !.args.langflow_url = clean_slack_formatting(args[3])]
        ELSE IF subcommand = "remove" THEN
            IF ~is_admin(tk.event.user) THEN Reply(tk, "no_permission")
            ELSE IF Len(args) < 2 THEN Reply(tk, "usage")
            ELSE [tk EXCEPT !.pc = "remove_flow", !.args.name = args[2]]
        ELSE IF subcommand = "default" THEN
            IF ~is_admin(tk.event.user) THEN Reply(tk, "no_permission")
            ELSE IF Len(args) < 2 THEN Reply(tk, "usage")
            ELSE [tk EXCEPT !.pc = "set_default_select", !.args.name = args[2]]
        ELSE IF subcommand = "info" THEN
            IF Len(args) < 2 THEN Reply(tk, "usage")
            ELSE [tk EXCEPT !.pc = "flow_info", !.args.name = args[2]]
        ELSE Reply(tk, "unknown_subcommand")

\* _cmd_channel up to its first await
cmd_channel(tk, args0) ==
    LET args == IF args0 = <<>> THEN <<"info">> ELSE args0
        subcommand == lower(args[1])
        channel == tk.event.channel
    IN  IF subcommand = "info"
        THEN [tk EXCEPT !.pc = "channel_info", !.args.channel_id = channel]
        ELSE IF subcommand = "set" THEN
            IF ~is_admin(tk.event.user) THEN Reply(tk, "no_permission")
            ELSE IF Len(args) < 2 THEN Reply(tk, "usage")
            ELSE [tk EXCEPT !.pc = "set_channel_get_flow", !.args.name = args[2],
                            !.args.channel_id = channel]
        ELSE IF subcommand = "reset" THEN
            IF ~is_admin(tk.event.user) THEN Reply(tk, "no_permission")
            ELSE [tk EXCEPT !.pc = "remove_channel_flow",
                            !.args.channel_id = channel]
        ELSE Reply(tk, "unknown_subcommand")

\* _handle_command up to its first await: parts = shlex.split(text)
handle_command(tk) ==
    LET parts == tk.cleaned_text
        command == lower(parts[1])
        args == Tail(parts)
    IN  IF command = "help" THEN Reply(tk, "help")
        ELSE IF command = "flows" THEN cmd_flows(tk, args)
        ELSE IF command = "channel" THEN cmd_channel(tk, args)
        ELSE Reply(tk, "unknown_command")

\* ------------------------------------------------- _handle_message, entry
\* A handler that takes every thread reply, participated thread or not.
should_process_any_thread(tk0, thread_key) ==
    tk0.is_mention \/ tk0.event.channel_type = "im" \/ tk0.event.thread_ts # 0

\* A handler that does not take direct messages.
should_process_without_dm(tk0, thread_key) ==
    \/ tk0.is_mention
    \/ tk0.event.thread_ts # 0 /\ thread_key \in bot_threads

\* Lines 187-209: should_process after the if / elif / elif.
should_process(tk0, thread_key) ==
    \/ tk0.is_mention
    \/ tk0.event.channel_type = "im"
    \/ tk0.event.thread_ts # 0 /\ thread_key \in bot_threads

\* Lines 183-231, from the bot's own id to the first await after
\* processing.add: no suspension point lies in between.
Admit(t, tk0, pm, bot) ==
    LET e == tk0.event
        key == make_message_key(e.channel, e.ts)
        addressed == tk0.is_mention \/ e.channel_type = "im"
        effective_thread_ts == IF e.thread_ts # 0 THEN e.thread_ts ELSE e.ts
        thread_key ==
            IF addressed THEN make_message_key(e.channel, effective_thread_ts)
            ELSE IF e.thread_ts # 0 THEN make_message_key(e.channel, e.thread_ts)
            ELSE NoKey
        cleaned_text == clean_message_text(e.text, bot)
        tk == [tk0 EXCEPT !.thread_key = thread_key, !.entered = TRUE,
                          !.cleaned_text = cleaned_text]
    IN  IF e.user = bot THEN
            /\ SetTask(t, Done(tk0, "self_authored"))
            /\ processed_messages' = pm
            /\ UNCHANGED processing
        ELSE IF ~should_process(tk0, thread_key) THEN
            /\ SetTask(t, Done(tk0, "not_addressed"))
            /\ processed_messages' = pm
            /\ UNCHANGED processing
        ELSE IF strip(e.text) = <<>> THEN
            /\ SetTask(t, Done(tk0, "empty_text"))
            /\ processed_messages' = pm
            /\ UNCHANGED processing
        ELSE IF cleaned_text = <<>> THEN
            \* processing.add, return, finally
            /\ SetTask(t, Done(tk, "empty_after_cleaning"))
            /\ processing' = processing \ {key}
            /\ processed_messages' =
                   [k \in DOMAIN pm \cup {key} |-> IF k = key THEN now ELSE pm[k]]
        ELSE
            /\ processing' = processing \cup {key}
            /\ processed_messages' = pm
            /\ IF tk.is_mention /\ is_command(cleaned_text)
               THEN SetTask(t, handle_command([tk EXCEPT !.path = "command"]))
               ELSE SetTask(t, [tk EXCEPT !.path = "conversation",
                                          !.pc = "get_channel_flow"])

\* A handler that takes one event at a time.
already_processing_any(key) == processing # {}

\* message_key in self._processing
already_processing(key) == key \in processing

\* _handle_message lines 155-181: the two duplicate checks, the sweep of the
\* suppression map and the bot's own id.
handle_message(t, e, is_mention) ==
    /\ Fresh(t)
    /\ LET key == make_message_key(e.channel, e.ts)
           tk == [IdleTask EXCEPT !.entry = "handle_message", !.event = e,
                                  !.is_mention = is_mention]
       IN  IF already_processing(key) THEN
               /\ SetTask(t, Done(tk, "already_processing"))
               /\ UNCHANGED <<dedupVars, bot_user_id, admin_users, main, parser>>
           ELSE IF /\ key \in DOMAIN processed_messages
                   /\ now - processed_messages[key] < dedup_window THEN
               /\ SetTask(t, Done(tk, "duplicate"))
               /\ UNCHANGED <<dedupVars, bot_user_id, admin_users, main, parser>>
           ELSE LET pm == cleanup_processed_messages(processed_messages, now) IN
               IF bot_user_id = NoName THEN
                   \* _get_bot_user_id awaits client.auth_test()
                   /\ SetTask(t, [tk EXCEPT !.pc = "auth_test"])
                   /\ processed_messages' = pm
                   /\ UNCHANGED <<processing, bot_user_id, admin_users, main, parser>>
               ELSE
                   /\ Admit(t, tk, pm, bot_user_id)
                   /\ UNCHANGED bot_user_id
    /\ UNCHANGED <<regVars, sessVars, now, bot_threads, clients, admin_users, main, parser, run>>

\* @app.event("app_mention")
on_app_mention(t, e) == handle_message(t, e, TRUE)

\* @app.event("message"): bot messages and subtypes are filtered out
on_message(t, e) ==
    /\ e.bot_id = NoName /\ e.subtype = NoName
    /\ handle_message(t, e, FALSE)

\* _get_bot_user_id: auth_test has answered; the id is cached and
\* _handle_message goes on from line 183.
get_bot_user_id(t) ==
    /\ task[t].pc = "auth_test"
    /\ bot_user_id' = BotId
    /\ Admit(t, task[t], processed_messages, BotId)
    /\ UNCHANGED <<regVars, sessVars, now, bot_threads, clients, admin_users, main, parser, run>>

\* -------------------------------------------- _handle_message, conversation
\* A handler without the check of line 243: it goes on to the session with
\* the None it got.
Resolved_without_check(tk, flow_config) ==
    [tk EXCEPT !.pc = "get_session", !.flow_config = flow_config,
               !.channel_flow = flow_config.name,
               !.args = [NoArgs EXCEPT !.channel_id = tk.event.channel,
                                       !.thread_ts = reply_ts(tk),
                                       !.name = flow_config.name]]

\* After get_channel_flow (lines 243-251).
Resolved(tk, flow_config) ==
    IF flow_config = NoFlow
    THEN [tk EXCEPT !.pc = "post_notice", !.notice = "no_flow"]
    ELSE [tk EXCEPT !.pc = "get_session", !.flow_config = flow_config,
                    !.channel_flow = flow_config.name,
                    \* get_or_create_session(channel, thread_ts or ts, flow_config.name)
                    !.args = [NoArgs EXCEPT !.channel_id = tk.event.channel,
                                            !.thread_ts = reply_ts(tk),
                                            !.name = flow_config.name]]

\* get_channel_flow: SELECT flow_name FROM channel_flows WHERE channel_id = ?
get_channel_flow(t) ==
    /\ task[t].pc = "get_channel_flow"
    /\ LET name == get_channel_flow_name(task[t].event.channel) IN
        SetTask(t, IF name # NoName
                   THEN [task[t] EXCEPT !.pc = "get_channel_flow_row",
                                        !.channel_flow = name]
                   ELSE [task[t] EXCEPT !.pc = "get_default_flow"])
    /\ UNCHANGED <<regVars, sessVars, now, dedupVars, bot_user_id, admin_users, main, parser, bot_threads,
                   clients, run>>

\* get_channel_flow: return await self.get_flow(row[0])
get_channel_flow_row(t) ==
    /\ task[t].pc = "get_channel_flow_row"
    /\ SetTask(t, Resolved(task[t], get_flow(task[t].channel_flow)))
    /\ UNCHANGED <<regVars, sessVars, now, dedupVars, bot_user_id, admin_users, main, parser, bot_threads,
                   clients, run>>

\* get_channel_flow: return await self.get_default_flow()
get_channel_flow_default(t) ==
    /\ task[t].pc = "get_default_flow"
    /\ SetTask(t, Resolved(task[t], get_default_flow))
    /\ UNCHANGED <<regVars, sessVars, now, dedupVars, bot_user_id, admin_users, main, parser, bot_threads,
                   clients, run>>

\* LangflowClientManager.get_client: the cached client of that name, or a new
\* one built from the configuration.
get_client_cache(cache, config) ==
    IF config.name \in DOMAIN cache THEN cache
    ELSE [n \in DOMAIN cache \cup {config.name} |->
            IF n = config.name
            THEN [name |-> config.name, langflow_url |-> config.langflow_url]
            ELSE cache[n]]

\* LangflowClientManager.invalidate
invalidate(cache, flow_name) == [n \in DOMAIN cache \ {flow_name} |-> cache[n]]

\* Lines 269-281: get_client, the typing task is created, and send_message
\* posts the request with the session token; the task then waits for the
\* backend.
SendMessage(t, tk) ==
    LET cache == get_client_cache(clients, tk.flow_config)
        client == cache[tk.flow_config.name]
    IN  /\ clients' = cache
        /\ SetTask(t, [tk EXCEPT !.pc = "await_response", !.client = client,
                         !.call = [flow |-> client.name,
                                   langflow_url |-> client.langflow_url,
                                   session_id |-> tk.session_info.session_id,
                                   message |-> tk.cleaned_text]])

\* get_or_create_session has returned: to line 260 of _handle_message, or to
\* the direct caller.
AfterSession(t, tk) ==
    IF tk.entry # "handle_message"
    THEN SetTask(t, Done(tk, "returned")) /\ UNCHANGED clients
    ELSE IF /\ tk.session_info.flow_name # NoName
            /\ tk.session_info.flow_name # tk.flow_config.name
    THEN SetTask(t, [tk EXCEPT !.pc = "get_flow"]) /\ UNCHANGED clients
    ELSE SendMessage(t, tk)

\* get_session: the SELECT
get_session(t) ==
    /\ task[t].pc = "get_session"
    /\ LET thread_key == make_thread_key(task[t].args.channel_id, task[t].args.thread_ts)
           found == select_session(thread_key)
       IN  SetTask(t, IF found = NoSession
                      THEN [task[t] EXCEPT !.pc = "create_session"]
                      ELSE [task[t] EXCEPT !.pc = "touch_session",
                                           !.session_info = found])
    /\ UNCHANGED <<regVars, sessVars, now, dedupVars, bot_user_id, admin_users, main, parser, bot_threads,
                   clients, run>>

\* A get_session whose UPDATE also rebinds the session to the proposed flow.
get_session_update_rebinding(t) ==
    /\ task[t].pc = "touch_session"
    /\ sessions' = {IF r.thread_key = make_thread_key(task[t].args.channel_id,
                                                      task[t].args.thread_ts)
                    THEN [r EXCEPT !.updated_at = now, !.flow_name = task[t].args.name]
                    ELSE r : r \in sessions}
    /\ AfterSession(t, task[t])
    /\ UNCHANGED <<regVars, uuid_seq, now, dedupVars, bot_user_id, admin_users, main, parser, bot_threads, run>>

\* get_session: the UPDATE of updated_at and the return of the row read
get_session_update(t) ==
    /\ task[t].pc = "touch_session"
    /\ sessions' = touch_session(
                      make_thread_key(task[t].args.channel_id, task[t].args.thread_ts))
    /\ AfterSession(t, task[t])
    /\ UNCHANGED <<regVars, uuid_seq, now, dedupVars, bot_user_id, admin_users, main, parser, bot_threads, run>>

\* create_session: uuid4, then the INSERT.  The IntegrityError of a second
\* row for the thread key is not caught by the session manager: it reaches
\* "except Exception" of _handle_message (line 330).
create_session(t) ==
    /\ task[t].pc = "create_session"
    /\ uuid_seq < MaxUuid
    /\ uuid_seq' = uuid_seq + 1
    /\ LET thread_key == make_thread_key(task[t].args.channel_id, task[t].args.thread_ts)
           session_id == uuid_seq + 1
           flow_name == task[t].args.name
       IN  IF insert_session_ok(thread_key)
           THEN /\ sessions' = insert_session(thread_key, session_id, flow_name)
                /\ AfterSession(t, [task[t] EXCEPT !.session_info =
                        [session_id |-> session_id, flow_name |-> flow_name,
                         is_new |-> TRUE]])
           ELSE /\ SetTask(t, IF task[t].entry = "handle_message"
                               THEN [task[t] EXCEPT !.pc = "post_notice",
                                        !.notice = "unexpected",
                                        !.raised = "IntegrityError"]
                               ELSE Done([task[t] EXCEPT !.raised = "IntegrityError"],
                                         "raised"))
                /\ UNCHANGED <<sessions, clients>>
    /\ UNCHANGED <<regVars, now, dedupVars, bot_user_id, admin_users, main, parser, bot_threads, run>>

\* A handler that looks the session's flow up but goes on with the channel's.
get_original_flow_unused(t) ==
    /\ task[t].pc = "get_flow"
    /\ LET original_flow == get_flow(task[t].session_info.flow_name)
       IN  IF original_flow # NoFlow
           THEN SendMessage(t, [task[t] EXCEPT !.original = "found"])
           ELSE SendMessage(t, [task[t] EXCEPT !.original = "missing"])
    /\ UNCHANGED <<regVars, sessVars, now, dedupVars, bot_user_id, admin_users, main, parser, bot_threads, run>>

\* Lines 260-267: the session's own flow, when it differs from the channel's
\* and still exists, replaces flow_config.
get_original_flow(t) ==
    /\ task[t].pc = "get_flow"
    /\ LET original_flow == get_flow(task[t].session_info.flow_name)
       IN  IF original_flow # NoFlow
           THEN SendMessage(t, [task[t] EXCEPT !.flow_config = original_flow,
                                               !.original = "found"])
           ELSE SendMessage(t, [task[t] EXCEPT !.original = "missing"])
    /\ UNCHANGED <<regVars, sessVars, now, dedupVars, bot_user_id, admin_users, main, parser, bot_threads, run>>

\* ------------------------------------------------- response_parser, chunking
\* A response text is its sequence of characters.
Whitespace == {" ", "\n"}
Repeat(c, n) == [i \in 1..n |-> c]

RECURSIVE lstrip(_)
lstrip(s) == IF s # <<>> /\ Head(s) \in Whitespace THEN lstrip(Tail(s)) ELSE s

RECURSIVE rstrip(_)
rstrip(s) ==
    IF s # <<>> /\ s[Len(s)] \in Whitespace THEN rstrip(SubSeq(s, 1, Len(s) - 1))
    ELSE s

\* s.rfind(sub, 0, end): the highest 0-based index of sub inside s[0:end], or -1
rfind(s, sub, end) ==
    LET stop == IF end < Len(s) THEN end ELSE Len(s)
        hits == {i \in 0..(stop - Len(sub)) : SubSeq(s, i + 1, i + Len(sub)) = sub}
    IN  IF hits = {} THEN -1 ELSE CHOOSE i \in hits : \A j \in hits : j <= i

\* The split point of one iteration: paragraph, newline, space, hard split
split_point_of(remaining, max_length) ==
    LET paragraph == rfind(remaining, <<"\n", "\n">>, max_length)
        newline == rfind(remaining, <<"\n">>, max_length)
        space == rfind(remaining, <<" ">>, max_length)
    IN  IF paragraph # -1 THEN paragraph
        ELSE IF newline # -1 THEN newline
        ELSE IF space # -1 THEN space
        ELSE max_length

\* A loop that goes on one character after the split point.
RECURSIVE split_chunks_skipping(_, _)
split_chunks_skipping(remaining, max_length) ==
    IF remaining = <<>> THEN <<>>
    ELSE IF Len(remaining) <= max_length THEN <<remaining>>
    ELSE LET split_point == split_point_of(remaining, max_length) IN
         <<rstrip(SubSeq(remaining, 1, split_point))>>
            \o split_chunks_skipping(
                   lstrip(SubSeq(remaining, split_point + 2, Len(remaining))),
                   max_length)

\* The while loop of format_for_slack
RECURSIVE split_chunks(_, _)
split_chunks(remaining, max_length) ==
    IF remaining = <<>> THEN <<>>
    ELSE IF Len(remaining) <= max_length THEN <<remaining>>
    ELSE LET split_point == split_point_of(remaining, max_length) IN
         <<rstrip(SubSeq(remaining, 1, split_point))>>
            \o split_chunks(lstrip(SubSeq(remaining, split_point + 1, Len(remaining))),
                            max_length)

\* A splitter that returns no chunk for a message that needs no split.
format_for_slack_dropping_short(message, max_length) ==
    IF Len(message) <= max_length THEN <<>> ELSE split_chunks(message, max_length)

format_for_slack(message, max_length) ==
    IF message = <<>> THEN <<>>
    ELSE IF Len(message) <= max_length THEN <<message>>
    ELSE split_chunks(message, max_length)

\* Backend answers: what send_message returns (the text extract_message found,
\* trimmed, or the empty string), or the exception it raises.  The longest
\* answer has no whitespace and fills MaxChunks chunks.
MaxChunks == 2
Responses ==
    [empty |-> <<>>,
     short |-> <<"o", "k">>,
     long |-> Repeat("a", max_length_default - 1) \o <<" ">>
                \o Repeat("b", (MaxChunks - 1) * max_length_default)]
ResponseNames == DOMAIN Responses

\* chunks = format_for_slack(text) in _send_response, for each answer
response_chunks == [r \in ResponseNames |-> format_for_slack(Responses[r], max_length_default)]
BackendErrors == {"LangflowTimeoutError", "LangflowAPIError", "LangflowError"}

\* A handler with the clause of LangflowError before those of its subclasses.
notice_of_base_first(raised) ==
    IF raised \in {"LangflowTimeoutError", "LangflowAPIError", "LangflowError"}
    THEN "backend_error" ELSE "unexpected"

\* The notice of each except clause of _handle_message
notice_of(raised) ==
    CASE raised = "LangflowTimeoutError" -> "timeout"
      [] raised = "LangflowAPIError" -> "api_error"
      [] raised = "LangflowError" -> "backend_error"
      [] OTHER -> "unexpected"

\* A handler that does not mark the thread when send_message returns.
await_response_unmarked(t, r) ==
    /\ task[t].pc = "await_response"
    /\ LET text == Responses[r]
           chunks == response_chunks[r]
           tk == [task[t] EXCEPT !.response = r]
       IN SetTask(t, IF text = <<>>
                     THEN [tk EXCEPT !.pc = "post_notice", !.notice = "no_response"]
                     ELSE IF chunks = <<>>
                     THEN [tk EXCEPT !.pc = "stop_typing", !.chunks = 0, !.sent = 0]
                     ELSE [tk EXCEPT !.pc = "post_chunk", !.chunks = Len(chunks),
                                     !.sent = 0])
    /\ UNCHANGED <<regVars, sessVars, now, dedupVars, bot_user_id, admin_users, main, parser, bot_threads,
                   clients, run>>

\* send_message returns the text of answer r: the thread is marked and
\* _send_response starts ("if not text", then the chunks of format_for_slack).
Received(tk, text, chunks) ==
    IF text = <<>>
    THEN [tk EXCEPT !.pc = "post_notice", !.notice = "no_response"]
    ELSE IF chunks = <<>>
    THEN [tk EXCEPT !.pc = "stop_typing", !.chunks = 0, !.sent = 0]
    ELSE [tk EXCEPT !.pc = "post_chunk", !.chunks = Len(chunks), !.sent = 0]

await_response(t, r) ==
    /\ task[t].pc = "await_response"
    /\ bot_threads' = bot_threads \cup {task[t].thread_key}
    /\ SetTask(t, Received([task[t] EXCEPT !.response = r],
                           Responses[r], response_chunks[r]))
    /\ UNCHANGED <<regVars, sessVars, now, dedupVars, bot_user_id, admin_users, main, parser, clients, run>>

\* A handler that marks the thread whether send_message returned or raised.
await_response_error_marking(t, err) ==
    /\ task[t].pc = "await_response"
    /\ bot_threads' = bot_threads \cup {task[t].thread_key}
    /\ SetTask(t, [task[t] EXCEPT !.pc = "stop_typing", !.raised = err])
    /\ UNCHANGED <<regVars, sessVars, now, dedupVars, bot_user_id, admin_users, main, parser, clients, run>>

\* send_message raises: the inner finally cancels the typing task and awaits it.
await_response_error(t, err) ==
    /\ task[t].pc = "await_response"
    /\ SetTask(t, [task[t] EXCEPT !.pc = "stop_typing", !.raised = err])
    /\ UNCHANGED <<regVars, sessVars, now, dedupVars, bot_user_id, admin_users, main, parser, bot_threads,
                   clients, run>>

\* One chat_postMessage(channel, thread_ts, text): chunk is the number of the
\* chunk posted, 0 for a notice.
Post(tk, kind, ok) ==
    [tk EXCEPT !.posts = Append(@, [kind |-> kind, channel |-> tk.event.channel,
                                    thread_ts |-> reply_ts(tk),
                                    chunk |-> IF kind = "chunk" THEN tk.sent + 1 ELSE 0,
                                    ok |-> ok])]

\* A dispatch that goes on with the next chunk when a post fails.
post_chunk_continuing(t, ok) ==
    /\ task[t].pc = "post_chunk"
    /\ LET tk == Post(task[t], "chunk", ok) IN
        SetTask(t, IF tk.sent + 1 = tk.chunks
                   THEN [tk EXCEPT !.pc = "stop_typing", !.sent = @ + 1]
                   ELSE [tk EXCEPT !.sent = @ + 1])
    /\ UNCHANGED <<regVars, sessVars, now, dedupVars, bot_user_id, admin_users, main, parser, bot_threads,
                   clients, run>>

\* _send_response: one chat_postMessage per chunk, in order; a failure raises.
post_chunk(t, ok) ==
    /\ task[t].pc = "post_chunk"
    /\ LET tk == Post(task[t], "chunk", ok) IN
        SetTask(t, IF ~ok THEN [tk EXCEPT !.pc = "stop_typing", !.raised = "SlackApiError"]
                   ELSE IF tk.sent + 1 = tk.chunks
                   THEN [tk EXCEPT !.pc = "stop_typing", !.sent = @ + 1]
                   ELSE [tk EXCEPT !.sent = @ + 1])
    /\ UNCHANGED <<regVars, sessVars, now, dedupVars, bot_user_id, admin_users, main, parser, bot_threads,
                   clients, run>>

\* An awaited statement of the flow registry or of the session store raises
\* (sqlite3.OperationalError: database is locked, disk I/O error): no
\* typing task exists yet, "except Exception" of line 330 takes it.
StorePcs == {"get_channel_flow", "get_channel_flow_row", "get_default_flow",
             "get_session", "touch_session", "create_session", "get_flow"}
store_error(t) ==
    /\ task[t].pc \in StorePcs
    /\ task[t].path = "conversation"
    /\ SetTask(t, [task[t] EXCEPT !.pc = "post_notice", !.notice = "unexpected",
                                  !.raised = "OperationalError"])
    /\ UNCHANGED <<regVars, sessVars, now, dedupVars, bot_user_id, admin_users, main, parser, bot_threads,
                   clients, run>>

\* A handler without the "except Exception" clause: what is not an error of
\* the backend leaves the task after the finally block, with no notice.
stop_typing_without_except(t) ==
    /\ task[t].pc = "stop_typing"
    /\ IF task[t].raised \notin BackendErrors
       THEN Finally(t, task[t], IF task[t].raised = NoName THEN "responded"
                                ELSE "escaped")
       ELSE /\ SetTask(t, [task[t] EXCEPT !.pc = "post_notice",
                                          !.notice = notice_of(task[t].raised)])
            /\ UNCHANGED dedupVars
    /\ UNCHANGED <<regVars, sessVars, now, bot_user_id, admin_users, main, parser, bot_threads, clients, run>>

\* Lines 291-297: await typing_task after its cancellation; then either the
\* outer finally (nothing was raised) or the matching except clause.
stop_typing(t) ==
    /\ task[t].pc = "stop_typing"
    /\ IF task[t].raised = NoName
       THEN Finally(t, task[t], "responded")
       ELSE /\ SetTask(t, [task[t] EXCEPT !.pc = "post_notice",
                                          !.notice = notice_of(task[t].raised)])
            /\ UNCHANGED dedupVars
    /\ UNCHANGED <<regVars, sessVars, now, bot_user_id, admin_users, main, parser, bot_threads, clients, run>>

\* _send_error_message: chat_postMessage, a failure is logged and swallowed.
\* The "no response" notice is sent from _send_response, inside the inner
\* try; every other notice is followed by the outer finally.
post_notice(t, ok) ==
    /\ task[t].pc = "post_notice"
    /\ LET tk == Post(task[t], task[t].notice, ok) IN
        IF tk.notice = "no_response"
        THEN SetTask(t, [tk EXCEPT !.pc = "stop_typing"]) /\ UNCHANGED dedupVars
        ELSE Finally(t, tk, tk.notice)
    /\ UNCHANGED <<regVars, sessVars, now, bot_user_id, admin_users, main, parser, bot_threads, clients, run>>

\* ------------------------------------------------------ commands, the steps
Others == <<sessVars, now, dedupVars, bot_user_id, admin_users, main, parser,
           bot_threads, run>>

\* _cmd_flows without arguments: list_flows
list_flows(t) ==
    /\ task[t].pc = "list_flows"
    /\ SetTask(t, Reply(task[t], IF flows = {} THEN "no_flows" ELSE "flows_list"))
    /\ UNCHANGED <<regVars, clients, Others>>

\* add_flow: one transaction
add_flow(t) ==
    /\ task[t].pc = "add_flow"
    /\ LET a == task[t].args IN
        IF add_flow_ok(a.name)
        THEN /\ flows' = add_flow_rows(a.name, a.langflow_url, a.is_default)
             /\ SetTask(t, Reply([task[t] EXCEPT !.ret = TRUE], "added"))
        ELSE /\ flows' = add_flow_rejected_rows(a.is_default)
             /\ SetTask(t, Reply([task[t] EXCEPT !.ret = FALSE], "exists"))
    /\ UNCHANGED <<channel_flows, clients, Others>>

\* update_flow: one transaction (no command calls it)
update_flow(t) ==
    /\ task[t].pc = "update_flow"
    /\ LET a == task[t].args IN
        /\ flows' = update_flow_rows(a.name, a.langflow_url)
        /\ SetTask(t, Reply([task[t] EXCEPT !.ret = (FlowRows(a.name) # {})],
                            "updated"))
    /\ UNCHANGED <<channel_flows, clients, Others>>

\* remove_flow: one transaction; the command then invalidates the cached client
remove_flow(t) ==
    /\ task[t].pc = "remove_flow"
    /\ LET a == task[t].args
           success == FlowRows(a.name) # {}
       IN  /\ channel_flows' = remove_flow_bindings(a.name)
           /\ flows' = remove_flow_rows(a.name)
           /\ clients' = IF task[t].entry = "handle_message"
                         THEN invalidate(clients, a.name) ELSE clients
           /\ SetTask(t, Reply([task[t] EXCEPT !.ret = success],
                               IF success THEN "removed" ELSE "not_found"))
    /\ UNCHANGED Others

\* set_default_flow: SELECT name FROM flows WHERE name = ?
set_default_select(t) ==
    /\ task[t].pc = "set_default_select"
    /\ SetTask(t, IF FlowRows(task[t].args.name) = {}
                  THEN Reply([task[t] EXCEPT !.ret = FALSE], "not_found")
                  ELSE [task[t] EXCEPT !.pc = "set_default_write"])
    /\ UNCHANGED <<regVars, clients, Others>>

\* set_default_flow: the two UPDATEs and the commit
set_default_flow(t) ==
    /\ task[t].pc = "set_default_write"
    /\ flows' = set_default_rows(task[t].args.name)
    /\ SetTask(t, Reply([task[t] EXCEPT !.ret = TRUE], "default_set"))
    /\ UNCHANGED <<channel_flows, clients, Others>>

\* flows info <name>: get_flow
flow_info(t) ==
    /\ task[t].pc = "flow_info"
    /\ SetTask(t, Reply(task[t], IF get_flow(task[t].args.name) = NoFlow
                                 THEN "not_found" ELSE "flow_info"))
    /\ UNCHANGED <<regVars, clients, Others>>

\* channel info: get_channel_flow_name
channel_info(t) ==
    /\ task[t].pc = "channel_info"
    /\ SetTask(t, [task[t] EXCEPT !.pc = "channel_info_binding",
                     !.channel_flow = get_channel_flow_name(task[t].args.channel_id)])
    /\ UNCHANGED <<regVars, clients, Others>>

\* channel info: get_channel_flow, the SELECT of the binding
channel_info_binding(t) ==
    /\ task[t].pc = "channel_info_binding"
    /\ SetTask(t, [task[t] EXCEPT !.pc = "channel_info_flow",
                     !.args.name = get_channel_flow_name(task[t].args.channel_id)])
    /\ UNCHANGED <<regVars, clients, Others>>

\* channel info: get_channel_flow, the bound flow or the default one
channel_info_flow(t) ==
    /\ task[t].pc = "channel_info_flow"
    /\ LET flow == IF task[t].args.name # NoName
                   THEN get_flow(task[t].args.name) ELSE get_default_flow
       IN SetTask(t, Reply(task[t],
             IF task[t].channel_flow # NoName THEN "channel_flow"
             ELSE IF flow # NoFlow THEN "channel_default"
             ELSE "channel_none"))
    /\ UNCHANGED <<regVars, clients, Others>>

\* set_channel_flow: flow = await self.get_flow(flow_name)
set_channel_get_flow(t) ==
    /\ task[t].pc = "set_channel_get_flow"
    /\ SetTask(t, IF get_flow(task[t].args.name) = NoFlow
                  THEN Reply([task[t] EXCEPT !.ret = FALSE], "not_found")
                  ELSE [task[t] EXCEPT !.pc = "set_channel_write"])
    /\ UNCHANGED <<regVars, clients, Others>>

\* set_channel_flow: INSERT OR REPLACE INTO channel_flows
set_channel_flow(t) ==
    /\ task[t].pc = "set_channel_write"
    /\ channel_flows' = set_channel_rows(task[t].args.channel_id, task[t].args.name)
    /\ SetTask(t, Reply([task[t] EXCEPT !.ret = TRUE], "channel_set"))
    /\ UNCHANGED <<flows, clients, Others>>

\* remove_channel_flow: DELETE FROM channel_flows WHERE channel_id = ?
remove_channel_flow(t) ==
    /\ task[t].pc = "remove_channel_flow"
    /\ LET success == get_channel_flow_name(task[t].args.channel_id) # NoName IN
        /\ channel_flows' = remove_channel_rows(task[t].args.channel_id)
        /\ SetTask(t, IF task[t].entry = "handle_message"
                      THEN [task[t] EXCEPT !.pc = "reset_get_default", !.ret = success]
                      ELSE Done([task[t] EXCEPT !.ret = success], "returned"))
    /\ UNCHANGED <<flows, clients, Others>>

\* channel reset: get_default_flow, for the wording of the answer
reset_get_default(t) ==
    /\ task[t].pc = "reset_get_default"
    /\ SetTask(t, Reply(task[t],
            IF ~task[t].ret THEN "already_default"
            ELSE IF get_default_flow # NoFlow THEN "reset_to_default"
            ELSE "reset_no_default"))
    /\ UNCHANGED <<regVars, clients, Others>>

\* _send_message of a command: a failure raises into "except Exception" of
\* _handle_command, which sends an error notice.
cmd_reply(t, ok) ==
    /\ task[t].pc = "cmd_reply"
    /\ LET tk == [task[t] EXCEPT !.posts = Append(@,
                    [kind |-> task[t].notice, channel |-> task[t].event.channel,
                     thread_ts |-> task[t].event.ts, chunk |-> 0, ok |-> ok])]
       IN IF ok THEN Finally(t, tk, "command")
          ELSE /\ SetTask(t, [tk EXCEPT !.pc = "cmd_error", !.notice = "cmd_error",
                                        !.raised = "SlackApiError"])
               /\ UNCHANGED dedupVars
    /\ UNCHANGED <<regVars, sessVars, now, bot_user_id, admin_users, main, parser, bot_threads, clients, run>>

\* _handle_command's _send_error_message(client, channel, ts, ...)
cmd_error(t, ok) ==
    /\ task[t].pc = "cmd_error"
    /\ Finally(t, [task[t] EXCEPT !.posts = Append(@,
                    [kind |-> "cmd_error", channel |-> task[t].event.channel,
                     thread_ts |-> task[t].event.ts, chunk |-> 0, ok |-> ok])],
               "command")
    /\ UNCHANGED <<regVars, sessVars, now, bot_user_id, admin_users, main, parser, bot_threads, clients, run>>

\* ------------------------------------------------------------ direct calls
\* A task that calls a method of the session manager or of the flow manager
\* directly (main.py, periodic_cleanup, or any other caller of the component).
Call(t, entry, pc, args) ==
    /\ Fresh(t)
    /\ SetTask(t, [IdleTask EXCEPT !.entry = entry, !.pc = pc, !.args = args])
    /\ UNCHANGED <<regVars, sessVars, now, dedupVars, bot_user_id, admin_users, main, parser, bot_threads,
                   clients, run>>

call_get_or_create_session(t, channel_id, thread_ts, flow_name) ==
    Call(t, "get_or_create_session", "get_session",
         [NoArgs EXCEPT !.channel_id = channel_id, !.thread_ts = thread_ts,
                        !.name = flow_name])

call_create_session(t, channel_id, thread_ts, flow_name) ==
    Call(t, "create_session", "create_session",
         [NoArgs EXCEPT !.channel_id = channel_id, !.thread_ts = thread_ts,
                        !.name = flow_name])

\* cleanup_old_sessions computes its cutoff before it opens the connection
call_cleanup_old_sessions(t, hours) ==
    /\ Fresh(t)
    /\ SetTask(t, [IdleTask EXCEPT !.entry = "cleanup_old_sessions",
                                   !.pc = "cleanup_count", !.args.hours = hours,
                                   !.cutoff = now - hours * 3600])
    /\ UNCHANGED <<regVars, sessVars, now, dedupVars, bot_user_id, admin_users, main, parser, bot_threads,
                   clients, run>>

call_add_flow(t, name, langflow_url, is_default) ==
    Call(t, "add_flow", "add_flow",
         [NoArgs EXCEPT !.name = name,
                        !.langflow_url = clean_slack_formatting(langflow_url),
                        !.is_default = is_default])

\* update_flow with no field to change returns False at once
call_update_flow(t, name, langflow_url) ==
    /\ Fresh(t)
    /\ LET tk == [IdleTask EXCEPT !.entry = "update_flow", !.pc = "update_flow",
                                  !.args.name = name,
                                  !.args.langflow_url = langflow_url]
       IN SetTask(t, IF langflow_url = NoName THEN Done(tk, "no_updates") ELSE tk)
    /\ UNCHANGED <<regVars, sessVars, now, dedupVars, bot_user_id, admin_users, main, parser, bot_threads,
                   clients, run>>

call_remove_flow(t, name) ==
    Call(t, "remove_flow", "remove_flow", [NoArgs EXCEPT !.name = name])

call_set_default_flow(t, name) ==
    Call(t, "set_default_flow", "set_default_select", [NoArgs EXCEPT !.name = name])

call_set_channel_flow(t, channel_id, flow_name) ==
    Call(t, "set_channel_flow", "set_channel_get_flow",
         [NoArgs EXCEPT !.channel_id = channel_id, !.name = flow_name])

call_remove_channel_flow(t, channel_id) ==
    Call(t, "remove_channel_flow", "remove_channel_flow",
         [NoArgs EXCEPT !.channel_id = channel_id])

\* cleanup_old_sessions: SELECT COUNT(*) FROM sessions WHERE updated_at < cutoff
cleanup_count(t) ==
    /\ task[t].pc = "cleanup_count"
    /\ LET count == Cardinality(expired_sessions(task[t].cutoff))
       IN SetTask(t, IF count > 0
                     THEN [task[t] EXCEPT !.pc = "cleanup_delete", !.count = count]
                     ELSE Done([task[t] EXCEPT !.count = count], "returned"))
    /\ UNCHANGED <<regVars, sessVars, now, dedupVars, bot_user_id, admin_users, main, parser, bot_threads,
                   clients, run>>

\* cleanup_old_sessions: DELETE FROM sessions WHERE updated_at < cutoff, with
\* the cutoff computed before the SELECT
cleanup_delete(t) ==
    /\ task[t].pc = "cleanup_delete"
    /\ sessions' = sessions \ expired_sessions(task[t].cutoff)
    /\ SetTask(t, Done(task[t], "returned"))
    /\ UNCHANGED <<regVars, uuid_seq, now, dedupVars, bot_user_id, admin_users, main, parser, bot_threads,
                   clients, run>>

\* --------------------------------------------------- LangflowClient.run_flow
\* One call of run_flow: attempt and last_error are its locals, log the
\* answer to each POST made so far, error the exception it raised.
NoRun ==
    [pc |-> "idle", max_retries |-> 0, attempt |-> 0, last_error |-> NoName,
     wait_time |-> 0, log |-> <<>>, error |-> NoName, status_code |-> 0]

\* What client.post gives: a response with a status code (and, for 200, a
\* body that is JSON or not), or an httpx exception
Response(status_code, json) == [status_code |-> status_code, json |-> json, exc |-> NoName]
Raises(exc) == [status_code |-> 0, json |-> FALSE, exc |-> exc]
PostOutcomes ==
    {Response(200, TRUE), Response(200, FALSE), Response(201, TRUE),
     Response(404, FALSE), Response(500, FALSE), Response(503, FALSE),
     Raises("TimeoutException"), Raises("RequestError")}

\* for attempt in range(self.max_retries + 1)
attempts_range_short(client_max_retries) == 0..(client_max_retries - 1)

attempts_range(client_max_retries) == 0..client_max_retries

\* run_flow up to its first POST
run_flow(client_max_retries) ==
    /\ run.pc = "idle"
    /\ run' = IF 0 \in attempts_range(client_max_retries)
              THEN [NoRun EXCEPT !.pc = "post", !.max_retries = client_max_retries]
              ELSE [NoRun EXCEPT !.pc = "raised", !.max_retries = client_max_retries,
                                 !.error = "LangflowError"]
    /\ UNCHANGED <<regVars, sessVars, now, dedupVars, bot_user_id, admin_users, main, parser, bot_threads,
                   clients, task>>

\* The end of one iteration: the next one, or "raise last_error"
next_attempt(r) ==
    IF r.attempt + 1 \in attempts_range(r.max_retries)
    THEN [r EXCEPT !.pc = "post", !.attempt = r.attempt + 1, !.wait_time = 0]
    ELSE [r EXCEPT !.pc = "raised", !.error = r.last_error, !.wait_time = 0]

\* if attempt < self.max_retries: await asyncio.sleep(2 ** attempt)
backoff(r) ==
    IF r.attempt < r.max_retries
    THEN [r EXCEPT !.pc = "sleep", !.wait_time = 2 ^ r.attempt]
    ELSE next_attempt(r)

\* A loop that keeps the error of the first failed attempt.
post_keeping_first_error(o) ==
    /\ run.pc = "post"
    /\ LET r == [run EXCEPT !.log = Append(run.log, o)]
           keep(kind, code) ==
               IF r.last_error = NoName
               THEN [r EXCEPT !.last_error = kind, !.status_code = code] ELSE r
       IN
       run' = CASE o.exc = "TimeoutException" -> backoff(keep("LangflowTimeoutError", 0))
                [] o.exc = "RequestError" -> backoff(keep("LangflowError", 0))
                [] o.status_code = 200 /\ o.json -> [r EXCEPT !.pc = "returned"]
                [] o.status_code = 200 /\ ~o.json ->
                    [r EXCEPT !.pc = "raised", !.error = "JSONDecodeError"]
                [] 400 <= o.status_code /\ o.status_code < 500 ->
                    [r EXCEPT !.pc = "raised", !.error = "LangflowAPIError",
                              !.status_code = o.status_code]
                [] OTHER -> backoff(keep("LangflowAPIError", o.status_code))
    /\ UNCHANGED <<regVars, sessVars, now, dedupVars, bot_user_id, admin_users, main, parser,
                   bot_threads, clients, task>>

\* One POST and what the loop body does with its answer
post(o) ==
    /\ run.pc = "post"
    /\ LET r == [run EXCEPT !.log = Append(run.log, o)] IN
       run' = CASE o.exc = "TimeoutException" ->
                    backoff([r EXCEPT !.last_error = "LangflowTimeoutError"])
                [] o.exc = "RequestError" ->
                    backoff([r EXCEPT !.last_error = "LangflowError"])
                [] o.status_code = 200 /\ o.json -> [r EXCEPT !.pc = "returned"]
                [] o.status_code = 200 /\ ~o.json ->
                    [r EXCEPT !.pc = "raised", !.error = "JSONDecodeError"]
                [] 400 <= o.status_code /\ o.status_code < 500 ->
                    [r EXCEPT !.pc = "raised", !.error = "LangflowAPIError",
                              !.status_code = o.status_code]
                [] OTHER ->
                    backoff([r EXCEPT !.last_error = "LangflowAPIError",
                                      !.status_code = o.status_code])
    /\ UNCHANGED <<regVars, sessVars, now, dedupVars, bot_user_id, admin_users, main, parser, bot_threads,
                   clients, task>>

\* asyncio.sleep(wait_time) is over
sleep_done ==
    /\ run.pc = "sleep"
    /\ run' = next_attempt(run)
    /\ UNCHANGED <<regVars, sessVars, now, dedupVars, bot_user_id, admin_users, main, parser, bot_threads,
                   clients, task>>

NextRun ==
    \/ \E m \in 0..MaxClientRetries : run_flow(m)
    \/ \E o \in PostOutcomes : post(o)
    \/ sleep_done

\* ------------------------------------------------------------------ clock
Tick ==
    /\ now + TickSeconds <= MaxTime
    /\ now' = now + TickSeconds
    /\ UNCHANGED <<regVars, sessVars, dedupVars, bot_user_id, admin_users, main, parser, bot_threads, clients,
                   task, run>>

\* --------------------------------------------------------- the event router
\* A session of thread 1 of channel C1, bound to flow A, that an earlier run
\* of the bot has left in the store.
StoredSession ==
    [thread_key |-> make_thread_key("C1", 1), session_id |-> 1,
     flow_name |-> "A", created_at |-> 0, updated_at |-> 0]

\* The handler as constructed, over the store as an earlier run of the bot
\* left it: flow A bound to channel C1, flow B the default, and the sessions
\* stored.
\* The parser before any call.
NoPayload == [type |-> "null"]
NoParse ==
    [pc |-> "idle", message |-> <<>>, max_length |-> 0, chunks |-> <<>>,
     remaining |-> <<>>, payload |-> NoPayload, text |-> <<>>]

\* main() at "await _handler.start()": the periodic cleanup task sleeps, no
\* event task runs, no LangflowClient exists.  objects are the LangflowClient
\* objects ever made (http is its _client, 0 for None), https the
\* httpx.AsyncClient objects ever made (TRUE once closed), entries the dict
\* _clients in insertion order, iter the iterator of close_all.
NoHandler == [pc |-> "idle", flow |-> NoName, object |-> 0, http |-> 0]
MainStart ==
    [pc |-> "start", stopped |-> NoName, cleanup_task |-> "sleep",
     cancelled |-> FALSE, swept |-> "never",
     handlers |-> [t \in TaskIds |-> NoHandler],
     objects |-> <<>>, https |-> <<>>, entries |-> <<>>,
     iter |-> [pos |-> 0, used |-> 0], closing |-> 0]

InitState(stored, admins, parsing) ==
    /\ flows = {[name |-> "A", langflow_url |-> "u1", is_default |-> FALSE],
                [name |-> "B", langflow_url |-> "u2", is_default |-> TRUE]}
    /\ channel_flows = {[channel_id |-> "C1", flow_name |-> "A"]}
    /\ sessions = stored
    /\ uuid_seq = Cardinality(stored)
    /\ now = 0
    /\ bot_user_id = NoName
    /\ processing = {}
    /\ processed_messages = <<>>
    /\ bot_threads = {}
    /\ clients = <<>>
    /\ admin_users = admins
    /\ task = [t \in TaskIds |-> IdleTask]
    /\ run = NoRun
    /\ parser = parsing
    /\ main = MainStart

InitConfigured(stored, admins) == InitState(stored, admins, NoParse)
InitWith(stored) == InitConfigured(stored, AdminUsers)
Init == InitWith({})
InitContinuity == \E stored \in {{}, {StoredSession}} : InitWith(stored)

Hi == <<Mention(BotId), "hi">>

\* The events of the admission specification: a mention that opens thread 1,
\* a direct message, a plain reply in thread 1, and a command.
AdmissionEvents ==
    {Ev("C1", 1, 0, Hi, "U1", "channel"),
     Ev("D1", 1, 0, <<"hi">>, "U1", "im"),
     Ev("C1", 2, 1, <<"more">>, "U1", "channel"),
     Ev("C1", 3, 0, <<Mention(BotId), "flows">>, "U1", "channel")}

\* The events of the continuity specification: a mention that opens thread 1,
\* a mention in that thread, and commands that change what channel C1
\* resolves to.
ContinuityEvents ==
    {Ev("C1", 1, 0, Hi, "U1", "channel"),
     Ev("C1", 3, 1, Hi, "U1", "channel"),
     Ev("C1", 2, 0, <<Mention(BotId), "channel", "reset">>, "U1", "channel"),
     Ev("C1", 2, 0, <<Mention(BotId), "flows", "remove", "A">>, "U1", "channel")}

\* The steps of the conversation path, with a backend that answers with one
\* of Answers or fails with one of Errors, and a sink that answers one of Sink.
Conversation(t, Answers, Errors, Sink) ==
    \/ get_bot_user_id(t)
    \/ get_channel_flow(t)
    \/ get_channel_flow_row(t)
    \/ get_channel_flow_default(t)
    \/ get_session(t)
    \/ get_session_update(t)
    \/ create_session(t)
    \/ \E r \in Answers : await_response(t, r)
    \/ \E err \in Errors : await_response_error(t, err)
    \/ \E ok \in Sink : post_chunk(t, ok)
    \/ stop_typing(t)
    \/ \E ok \in Sink : post_notice(t, ok)

\* Admission: deliveries through both handlers, redeliveries, the clock.
Next ==
    \/ \E t \in TaskIds, e \in AdmissionEvents : on_app_mention(t, e)
    \/ \E t \in TaskIds, e \in AdmissionEvents : on_message(t, e)
    \/ \E t \in TaskIds : Conversation(t, {"short"}, {"LangflowError"}, {TRUE})
    \/ \E t \in TaskIds : list_flows(t)
    \/ \E t \in TaskIds : cmd_reply(t, TRUE)
    \/ Tick

Spec == Init /\ [][Next]_vars

\* Continuity: conversations of one thread while commands change the flow
\* registry.
NextContinuity ==
    \/ \E t \in TaskIds, e \in ContinuityEvents : on_app_mention(t, e)
    \/ \E t \in TaskIds : Conversation(t, {"short"}, {"LangflowError"}, {TRUE})
    \/ \E t \in TaskIds : get_original_flow(t)
    \/ \E t \in TaskIds : remove_flow(t)
    \/ \E t \in TaskIds : remove_channel_flow(t)
    \/ \E t \in TaskIds : reset_get_default(t)
    \/ \E t \in TaskIds : cmd_reply(t, TRUE)

SpecContinuity == InitContinuity /\ [][NextContinuity]_vars

\* ------------------------------------------------- the session store alone
TickStore ==
    /\ (now \div 3600) + TickHours <= MaxHours
    /\ now' = now + TickHours * 3600
    /\ UNCHANGED <<regVars, sessVars, dedupVars, bot_user_id, admin_users, main, parser, bot_threads, clients,
                   task, run>>

\* Direct calls of the session manager for two threads of channel C1, the
\* periodic sweep, and flow manager calls that change what C1 resolves to.
NextSessions ==
    \/ \E t \in TaskIds, ts \in {1, 2}, f \in FlowNames :
            call_get_or_create_session(t, "C1", ts, f)
    \/ \E t \in TaskIds, f \in FlowNames : call_create_session(t, "C1", 1, f)
    \/ \E t \in TaskIds : call_cleanup_old_sessions(t, session_ttl_hours)
    \/ \E t \in TaskIds : get_session(t)
    \/ \E t \in TaskIds : get_session_update(t)
    \/ \E t \in TaskIds : create_session(t)
    \/ \E t \in TaskIds : cleanup_count(t)
    \/ \E t \in TaskIds : cleanup_delete(t)
    \/ \E t \in TaskIds : call_remove_flow(t, "A")
    \/ \E t \in TaskIds : remove_flow(t)
    \/ \E t \in TaskIds : call_set_default_flow(t, "A")
    \/ \E t \in TaskIds : set_default_select(t)
    \/ \E t \in TaskIds : set_default_flow(t)
    \/ \E t \in TaskIds : call_set_channel_flow(t, "C1", "B")
    \/ \E t \in TaskIds : set_channel_get_flow(t)
    \/ \E t \in TaskIds : set_channel_flow(t)
    \/ \E t \in TaskIds : call_remove_channel_flow(t, "C1")
    \/ \E t \in TaskIds : remove_channel_flow(t)
    \/ TickStore

SpecSessions == InitContinuity /\ [][NextSessions]_vars

\* -------------------------------------------------- the flow registry alone
\* Direct calls of the flow manager: flows A and B exist, C does not.
NextFlows ==
    \/ \E t \in TaskIds, n \in {"A", "C"}, d \in BOOLEAN :
            call_add_flow(t, n, "<u1>", d)
    \/ \E t \in TaskIds : add_flow(t)
    \/ \E t \in TaskIds, u \in {"u2", NoName} : call_update_flow(t, "A", u)
    \/ \E t \in TaskIds : update_flow(t)
    \/ \E t \in TaskIds, n \in {"A", "B"} : call_remove_flow(t, n)
    \/ \E t \in TaskIds : remove_flow(t)
    \/ \E t \in TaskIds, n \in {"A", "C"} : call_set_default_flow(t, n)
    \/ \E t \in TaskIds : set_default_select(t)
    \/ \E t \in TaskIds : set_default_flow(t)
    \/ \E t \in TaskIds, n \in {"B", "C"} : call_set_channel_flow(t, "C1", n)
    \/ \E t \in TaskIds : set_channel_get_flow(t)
    \/ \E t \in TaskIds : set_channel_flow(t)
    \/ \E t \in TaskIds : call_remove_channel_flow(t, "C1")
    \/ \E t \in TaskIds : remove_channel_flow(t)

SpecFlows == Init /\ [][NextFlows]_vars

SpecRun == Init /\ [][NextRun]_vars

\* ------------------------------------------------- processing and dispatch
\* The handler over a populated flow registry or over an empty one (no
\* default flow configured yet).
InitDispatch ==
    /\ \/ /\ flows = {[name |-> "A", langflow_url |-> "u1", is_default |-> FALSE],
                       [name |-> "B", langflow_url |-> "u2", is_default |-> TRUE]}
          /\ channel_flows = {[channel_id |-> "C1", flow_name |-> "A"]}
       \/ flows = {} /\ channel_flows = {}
    /\ sessions = {}
    /\ uuid_seq = 0
    /\ now = 0
    /\ bot_user_id = NoName
    /\ processing = {}
    /\ processed_messages = <<>>
    /\ bot_threads = {}
    /\ clients = <<>>
    /\ admin_users = AdminUsers
    /\ task = [t \in TaskIds |-> IdleTask]
    /\ run = NoRun
    /\ parser = NoParse
    /\ main = MainStart

\* A mention that opens thread 1, a mention that holds nothing else, and a
\* command.
DispatchEvents ==
    {Ev("C1", 1, 0, Hi, "U1", "channel"),
     Ev("C1", 2, 0, <<Mention(BotId)>>, "U1", "channel"),
     Ev("C1", 3, 0, <<Mention(BotId), "help">>, "U1", "channel")}

\* No task is under way: the events of this specification arrive one after
\* the other.
Quiet == \A u \in TaskIds : task[u].pc \in {"idle", "done"}

\* Every answer and every failure of the backend, a store and a sink that may
\* fail.
NextDispatch ==
    \/ \E t \in TaskIds, e \in DispatchEvents : Quiet /\ on_app_mention(t, e)
    \/ \E t \in TaskIds : Conversation(t, ResponseNames, BackendErrors, BOOLEAN)
    \/ \E t \in TaskIds : store_error(t)
    \/ \E t \in TaskIds, ok \in BOOLEAN : cmd_reply(t, ok)
    \/ \E t \in TaskIds, ok \in BOOLEAN : cmd_error(t, ok)
    \/ Tick

SpecDispatch == InitDispatch /\ [][NextDispatch]_vars

\* ----------------------------------------------------------- client cache
\* A mention in channel C1, bound to flow A, and the commands that remove
\* flow A and add it again with another url.
ClientEvents ==
    {Ev("C1", 1, 0, Hi, "U1", "channel"),
     Ev("C1", 2, 0, <<Mention(BotId), "flows", "remove", "A">>, "U1", "channel"),
     Ev("C1", 3, 0, <<Mention(BotId), "flows", "add", "A", "u2", "f2", "k2">>,
        "U1", "channel")}

\* Conversations, the commands that change flow A, and a direct caller of
\* FlowManager.update_flow.
NextClients ==
    \/ \E t \in TaskIds, e \in ClientEvents : on_app_mention(t, e)
    \/ \E t \in TaskIds : Conversation(t, {"short"}, {"LangflowError"}, {TRUE})
    \/ \E t \in TaskIds : get_original_flow(t)
    \/ \E t \in TaskIds : remove_flow(t)
    \/ \E t \in TaskIds : add_flow(t)
    \/ \E t \in TaskIds : cmd_reply(t, TRUE)
    \/ \E t \in TaskIds : call_update_flow(t, "A", "u2")
    \/ \E t \in TaskIds : update_flow(t)

SpecClients == InitContinuity /\ [][NextClients]_vars

\* ---------------------------------------------------------------- registry
\* A caller of the flow manager goes on to its next call once the last one
\* has returned.
next_call(t) ==
    /\ task[t].pc = "done"
    /\ task[t].entry # "handle_message"
    /\ SetTask(t, IdleTask)
    /\ UNCHANGED <<regVars, sessVars, now, dedupVars, bot_user_id, admin_users, main, parser, bot_threads,
                   clients, run>>

\* A caller's slot is free again after next_call, whatever the other slots
\* hold.
call_again(t, entry, pc, args) ==
    /\ task[t].pc = "idle"
    /\ SetTask(t, [IdleTask EXCEPT !.entry = entry, !.pc = pc, !.args = args])
    /\ UNCHANGED <<regVars, sessVars, now, dedupVars, bot_user_id, admin_users, main, parser, bot_threads,
                   clients, run>>

\* Callers that bind channel C1 to flow B, remove flow B and add it again,
\* one call after the other in each caller, the callers side by side.
NextRegistry ==
    \/ \E t \in TaskIds :
           call_again(t, "set_channel_flow", "set_channel_get_flow",
                      [NoArgs EXCEPT !.channel_id = "C1", !.name = "B"])
    \/ \E t \in TaskIds : set_channel_get_flow(t)
    \/ \E t \in TaskIds : set_channel_flow(t)
    \/ \E t \in TaskIds :
           call_again(t, "remove_flow", "remove_flow", [NoArgs EXCEPT !.name = "B"])
    \/ \E t \in TaskIds : remove_flow(t)
    \/ \E t \in TaskIds, d \in BOOLEAN :
           call_again(t, "add_flow", "add_flow",
                      [NoArgs EXCEPT !.name = "B", !.langflow_url = "u2",
                                     !.is_default = d])
    \/ \E t \in TaskIds : add_flow(t)
    \/ \E t \in TaskIds : next_call(t)

SpecRegistry == InitContinuity /\ [][NextRegistry]_vars

\* ------------------------------------------------------------- permissions
\* The words of every command, mutating or not.
CommandTexts ==
    <<  <<"help">>, <<"flows">>, <<"flows", "info", "A">>, <<"channel", "info">>,
        <<"flows", "add", "C", "<u1>", "f1", "k1">>, <<"flows", "remove", "A">>,
        <<"flows", "default", "A">>, <<"channel", "set", "B">>,
        <<"channel", "reset">> >>

\* Each command, sent as a mention in channel C1 by the admin U1 and by U2.
PermissionEvents ==
    {Ev("C1", i, 0, <<Mention(BotId)>> \o CommandTexts[i], u, "channel") :
        i \in DOMAIN CommandTexts, u \in {"U1", "U2"}}

\* ADMIN_USER_IDS is empty or names U1.
InitPermissions == \E admins \in {{}, AdminUsers} : InitConfigured({}, admins)

\* Commands arrive one after the other and run to their answer.
NextPermissions ==
    \/ \E t \in TaskIds, e \in PermissionEvents : Quiet /\ on_app_mention(t, e)
    \/ \E t \in TaskIds : get_bot_user_id(t)
    \/ \E t \in TaskIds : list_flows(t)
    \/ \E t \in TaskIds : flow_info(t)
    \/ \E t \in TaskIds : add_flow(t)
    \/ \E t \in TaskIds : remove_flow(t)
    \/ \E t \in TaskIds : set_default_select(t)
    \/ \E t \in TaskIds : set_default_flow(t)
    \/ \E t \in TaskIds : channel_info(t)
    \/ \E t \in TaskIds : channel_info_binding(t)
    \/ \E t \in TaskIds : channel_info_flow(t)
    \/ \E t \in TaskIds : set_channel_get_flow(t)
    \/ \E t \in TaskIds : set_channel_flow(t)
    \/ \E t \in TaskIds : remove_channel_flow(t)
    \/ \E t \in TaskIds : reset_get_default(t)
    \/ \E t \in TaskIds : cmd_reply(t, TRUE)

SpecPermissions == InitPermissions /\ [][NextPermissions]_vars

\* -------------------------------------------------------------- extraction
\* A JSON value is a record of its type and its value: a string is its
\* sequence of characters, a list the sequence of its items, an object the
\* function from every key name to its value, Absent for a key it lacks.
Keys == {"outputs", "artifacts", "messages", "results", "message", "text", "data"}
Absent == [type |-> "absent"]
JNull == [type |-> "null"]
JNumber == [type |-> "number"]
JString(s) == [type |-> "str", value |-> s]
JList(items) == [type |-> "list", value |-> items]
JDict(fields) ==
    [type |-> "dict",
     value |-> [k \in Keys |-> IF k \in DOMAIN fields THEN fields[k] ELSE Absent]]
EmptyDict == [type |-> "dict", value |-> [k \in Keys |-> Absent]]

\* What an exception leaves in place of a value.
Raised == [type |-> "raised"]

\* "not v" is false for v
Truthy(v) ==
    CASE v.type = "number" -> TRUE
      [] v.type \in {"str", "list"} -> v.value # <<>>
      [] v.type = "dict" -> \E k \in Keys : v.value[k] # Absent
      [] OTHER -> FALSE

\* v.get(key, default), for v an object
get(v, key, default) == IF v.value[key] = Absent THEN default ELSE v.value[key]

\* v[0] of a value that is not empty: the first item of a list, the first
\* character of a string; a number cannot be subscripted (TypeError) and an
\* object has no key 0 (KeyError).
first_of(v) ==
    CASE v.type = "list" -> v.value[1]
      [] v.type = "str" -> JString(<<v.value[1]>>)
      [] OTHER -> Raised

\* str.strip()
str_strip(s) == rstrip(lstrip(s))

\* isinstance(message, str) and message.strip(): message.strip(), else None
stripped_or_none(message) ==
    IF message.type = "str" /\ str_strip(message.value) # <<>>
    THEN JString(str_strip(message.value)) ELSE JNull

\* key in result, for result an object: a string or a list of the payloads
\* drawn here holds no key name
has_key(result, key) == result.type = "dict" /\ result.value[key] # Absent

try_artifacts_message(result) ==
    IF ~has_key(result, "artifacts") THEN JNull
    ELSE LET artifacts == result.value["artifacts"] IN
         IF artifacts.type # "dict" THEN JNull
         ELSE stripped_or_none(get(artifacts, "message", JNull))

try_messages_array(result) ==
    IF ~has_key(result, "messages") THEN JNull
    ELSE LET messages == result.value["messages"] IN
         IF messages.type # "list" \/ messages.value = <<>> THEN JNull
         ELSE LET first_message == messages.value[1] IN
              IF first_message.type # "dict" THEN JNull
              ELSE stripped_or_none(get(first_message, "message", JNull))

\* results.get("message") when results is an object, else None
results_message(result) ==
    IF ~has_key(result, "results") THEN JNull
    ELSE LET results == result.value["results"] IN
         IF results.type # "dict" THEN JNull ELSE get(results, "message", JNull)

try_results_message_text(result) ==
    LET message_obj == results_message(result) IN
    IF message_obj.type # "dict" THEN JNull
    ELSE stripped_or_none(get(message_obj, "text", JNull))

try_results_message_data_text(result) ==
    LET message_obj == results_message(result) IN
    IF message_obj.type # "dict" THEN JNull
    ELSE LET data == get(message_obj, "data", JNull) IN
         IF data.type # "dict" THEN JNull
         ELSE stripped_or_none(get(data, "text", JNull))

try_results_message_string(result) == stripped_or_none(results_message(result))

\* Paths tried with the direct string before the artifacts.
try_paths_string_first(result) ==
    LET paths == <<try_results_message_string(result), try_artifacts_message(result),
                   try_messages_array(result), try_results_message_text(result),
                   try_results_message_data_text(result)>>
        found == {i \in DOMAIN paths : paths[i] # JNull}
    IN  IF found = {} THEN JString(<<>>)
        ELSE paths[CHOOSE i \in found : \A j \in found : i <= j]

\* Paths 1 to 5 of extract_message: the first one that gives a message, or ""
try_paths(result) ==
    LET paths == <<try_artifacts_message(result), try_messages_array(result),
                   try_results_message_text(result),
                   try_results_message_data_text(result),
                   try_results_message_string(result)>>
        found == {i \in DOMAIN paths : paths[i] # JNull}
    IN  IF found = {} THEN JString(<<>>)
        ELSE paths[CHOOSE i \in found : \A j \in found : i <= j]

\* The try block of extract_message: the string it returns, or Raised
extract_body(response) ==
    IF response.type # "dict" THEN Raised          \* response.get
    ELSE LET outputs == get(response, "outputs", JList(<<>>)) IN
    IF ~Truthy(outputs) THEN JString(<<>>)
    ELSE LET first == first_of(outputs) IN         \* outputs[0].get
    IF first.type # "dict" THEN Raised
    ELSE LET inner_outputs == get(first, "outputs", JList(<<>>)) IN
    IF ~Truthy(inner_outputs) THEN JString(<<>>)
    ELSE LET result == first_of(inner_outputs) IN  \* inner_outputs[0]
    IF result.type \in {"raised", "number", "null"}
    THEN Raised                                    \* "artifacts" not in result
    ELSE try_paths(result)

\* An extract_message without its except clause.
extract_message_without_except(response) == extract_body(response)

\* extract_message: except Exception: return ""
extract_message(response) ==
    LET message == extract_body(response)
    IN  IF message = Raised THEN JString(<<>>) ELSE message

\* The values of a field that a path reads: absent, of the wrong type,
\* whitespace only, or a text with whitespace around it.
FieldValues(c) == {Absent, JNumber, JString(<<" ">>), JString(<<" ", c, " ">>)}
Artifacts == {Absent, JNumber} \cup {JDict([message |-> v]) : v \in FieldValues("a")}
Messages ==
    {Absent, JNumber, JList(<<>>), JList(<<JNumber>>)}
        \cup {JList(<<JDict([message |-> v])>>) : v \in FieldValues("m")}
Data == {Absent, JNumber} \cup {JDict([text |-> v]) : v \in FieldValues("d")}
ResultsMessages ==
    FieldValues("s")
        \cup {JDict([text |-> t, data |-> d]) : t \in FieldValues("t"), d \in Data}
Results == {Absent, JNumber} \cup {JDict([message |-> m]) : m \in ResultsMessages}
ResultValues ==
    {JDict([artifacts |-> a, messages |-> m, results |-> r]) :
        a \in Artifacts, m \in Messages, r \in Results}
        \cup {JNull, JNumber, JString(<<"x">>), JList(<<>>)}

\* The bodies of a successful backend response: the two wrapper arrays around
\* each result, and the bodies that lack them.
Wrapped(result) ==
    JDict([outputs |-> JList(<<JDict([outputs |-> JList(<<result>>)])>>)])
Payloads ==
    {Wrapped(result) : result \in ResultValues}
        \cup {JNull, JList(<<>>), EmptyDict}
        \cup {JDict([outputs |-> v]) :
                v \in {JNull, JNumber, JString(<<"x">>), JList(<<>>), JList(<<JNumber>>),
                       JList(<<EmptyDict>>)}}
        \cup {JDict([outputs |-> JList(<<JDict([outputs |-> v])>>)]) :
                v \in {JNull, JNumber, JList(<<>>)}}

\* run_flow of the call to come returns the body payload.
InitExtract ==
    \E payload \in Payloads :
        InitState({}, AdminUsers,
                  [NoParse EXCEPT !.pc = "extract_message", !.payload = payload])

\* send_message: return extract_message(response); _handle_message goes on
\* with the text (lines 281-300), or with the exception.
send_message_return(t) ==
    /\ task[t].pc = "await_response"
    /\ LET message == extract_message(parser.payload)
           tk == [task[t] EXCEPT !.response = "extracted"]
       IN  IF message = Raised
           THEN /\ SetTask(t, [tk EXCEPT !.pc = "stop_typing", !.raised = "Exception"])
                /\ UNCHANGED <<bot_threads, parser>>
           ELSE /\ bot_threads' = bot_threads \cup {task[t].thread_key}
                /\ parser' = [parser EXCEPT !.pc = "returned", !.text = message.value]
                /\ SetTask(t, Received(tk, message.value,
                                       format_for_slack(message.value,
                                                        max_length_default)))
    /\ UNCHANGED <<regVars, sessVars, now, dedupVars, bot_user_id, admin_users, main,
                   clients, run>>

\* One mention in channel C1, and the conversation up to its answer.
NextExtract ==
    \/ \E t \in TaskIds : Quiet /\ on_app_mention(t, Ev("C1", 1, 0, Hi, "U1", "channel"))
    \/ \E t \in TaskIds : get_bot_user_id(t)
    \/ \E t \in TaskIds : get_channel_flow(t)
    \/ \E t \in TaskIds : get_channel_flow_row(t)
    \/ \E t \in TaskIds : get_session(t)
    \/ \E t \in TaskIds : create_session(t)
    \/ \E t \in TaskIds : send_message_return(t)
    \/ \E t \in TaskIds : post_chunk(t, TRUE)
    \/ \E t \in TaskIds : post_notice(t, TRUE)
    \/ \E t \in TaskIds : stop_typing(t)

SpecExtract == InitExtract /\ [][NextExtract]_vars

\* ---------------------------------------------------------------- chunking
\* Texts of up to MaxText characters over two letters, the space and the
\* newline, and maximum lengths from 1 to MaxLength.
MaxText == 5
MaxLength == 3
Chars == {"a", "b", " ", "\n"}
Texts == UNION {[1..n -> Chars] : n \in 0..MaxText}

\* A call of format_for_slack(message, max_length) is about to run.
InitChunks ==
    \E message \in Texts, max_length \in 1..MaxLength :
        InitState({}, AdminUsers,
                  [NoParse EXCEPT !.pc = "format_for_slack", !.message = message,
                                  !.max_length = max_length])

\* format_for_slack runs (it does not suspend) and returns its chunks.
format_for_slack_call ==
    /\ parser.pc = "format_for_slack"
    /\ parser' = [parser EXCEPT !.pc = "returned",
                     !.chunks = format_for_slack(parser.message, parser.max_length)]
    /\ UNCHANGED <<regVars, sessVars, now, dedupVars, bot_user_id, admin_users, main,
                   bot_threads, clients, task, run>>

NextChunks == format_for_slack_call

SpecChunks == InitChunks /\ [][NextChunks]_vars

\* ------------------------------------------------------------- addressing
\* The events of the addressing specification: mentions in channel C1 with
\* and without a thread, plain replies in thread 1 and in thread 5, a plain
\* channel message, direct messages with and without text, a mention with no
\* other text, and events whose author is the bot.
AddressingEvents ==
    {Ev("C1", 1, 0, Hi, "U1", "channel"),
     Ev("C1", 2, 1, Hi, "U2", "channel"),
     Ev("C1", 3, 1, <<"more">>, "U1", "channel"),
     Ev("C1", 6, 5, <<"more">>, "U1", "channel"),
     Ev("C1", 7, 0, <<"hello">>, "U1", "channel"),
     Ev("D1", 1, 0, <<"hi">>, "U1", "im"),
     Ev("D1", 2, 0, <<>>, "U1", "im"),
     Ev("C1", 8, 0, <<Mention(BotId)>>, "U1", "channel"),
     Ev("D1", 3, 0, <<"hi">>, BotId, "im"),
     Ev("C1", 4, 1, Hi, BotId, "channel")}

\* Slack sends app_mention for the messages that mention the bot.
MentionEvents ==
    {e \in AddressingEvents : \E i \in 1..Len(e.text) : e.text[i] = Mention(BotId)}

NextAddressing ==
    \/ \E t \in TaskIds, e \in MentionEvents : on_app_mention(t, e)
    \/ \E t \in TaskIds, e \in AddressingEvents : on_message(t, e)
    \/ \E t \in TaskIds : Conversation(t, {"short"}, {"LangflowError"}, {TRUE})

SpecAddressing == Init /\ [][NextAddressing]_vars

\* ------------------------------------------------------- the chunking loop
\* A loop that goes on from the split point without its lstrip.
remaining_after_unstripped(remaining, split_point) ==
    SubSeq(remaining, split_point + 1, Len(remaining))

\* remaining = remaining[split_point:].lstrip()
remaining_after(remaining, split_point) ==
    lstrip(SubSeq(remaining, split_point + 1, Len(remaining)))

\* format_for_slack up to its loop: the two early returns, then chunks = []
\* and remaining = message.
format_for_slack_begin ==
    /\ parser.pc = "format_for_slack"
    /\ parser' =
           IF parser.message = <<>>
           THEN [parser EXCEPT !.pc = "returned", !.chunks = <<>>]
           ELSE IF Len(parser.message) <= parser.max_length
           THEN [parser EXCEPT !.pc = "returned", !.chunks = <<parser.message>>]
           ELSE [parser EXCEPT !.pc = "while", !.chunks = <<>>,
                               !.remaining = parser.message]
    /\ UNCHANGED <<regVars, sessVars, now, dedupVars, bot_user_id, admin_users, main,
                   bot_threads, clients, task, run>>

\* One iteration of while remaining: the last chunk and break, or a split.
while_remaining ==
    /\ parser.pc = "while"
    /\ parser.remaining # <<>>
    /\ parser' =
           IF Len(parser.remaining) <= parser.max_length
           THEN [parser EXCEPT !.pc = "returned", !.remaining = <<>>,
                               !.chunks = Append(@, parser.remaining)]
           ELSE LET split_point ==
                        split_point_of(parser.remaining, parser.max_length)
                IN  [parser EXCEPT
                        !.chunks = Append(@, rstrip(SubSeq(parser.remaining, 1,
                                                           split_point))),
                        !.remaining = remaining_after(parser.remaining,
                                                      split_point)]
    /\ UNCHANGED <<regVars, sessVars, now, dedupVars, bot_user_id, admin_users, main,
                   bot_threads, clients, task, run>>

\* The loop condition is false: return chunks.
while_end ==
    /\ parser.pc = "while"
    /\ parser.remaining = <<>>
    /\ parser' = [parser EXCEPT !.pc = "returned"]
    /\ UNCHANGED <<regVars, sessVars, now, dedupVars, bot_user_id, admin_users, main,
                   bot_threads, clients, task, run>>

NextChunkLoop ==
    \/ format_for_slack_begin
    \/ while_remaining
    \/ while_end

\* The function is synchronous code: once called it runs on.
SpecChunkLoop == InitChunks /\ [][NextChunkLoop]_vars /\ WF_vars(NextChunkLoop)

\* ------------------------------------------------------ main.py, shutdown
notMain == <<flows, channel_flows, uuid_seq, now, bot_user_id, processing,
             processed_messages, bot_threads, clients, admin_users, task, run,
             parser>>

\* The event loop runs until main() has returned or raised.
LoopRuns(m) == m.pc \notin {"complete", "failed"}

\* The live entries of _clients and len(_clients)
Live(m) == {i \in DOMAIN m.entries : m.entries[i].live}
Cached(m, name) == {i \in Live(m) : m.entries[i].name = name}

\* periodic_cleanup: asyncio.sleep(interval_seconds) is over
periodic_cleanup_sleep ==
    /\ main.cleanup_task = "sleep" /\ ~main.cancelled
    /\ main' = [main EXCEPT !.cleanup_task = "cleanup_old_sessions"]
    /\ UNCHANGED <<sessions, notMain>>

\* periodic_cleanup: cleanup_old_sessions(ttl_hours) has committed, and the
\* loop sleeps again.
periodic_cleanup_sweep ==
    /\ main.cleanup_task = "cleanup_old_sessions" /\ ~main.cancelled
    /\ sessions' = sessions \ expired_sessions(now - session_ttl_hours * 3600)
    /\ main' = [main EXCEPT !.cleanup_task = "sleep", !.swept = main.pc]
    /\ UNCHANGED notMain

\* periodic_cleanup: CancelledError at its await, except, break.  A delete
\* whose commit was under way when the task was cancelled is committed or
\* not.
periodic_cleanup_cancelled ==
    /\ main.cancelled /\ main.cleanup_task \in {"sleep", "cleanup_old_sessions"}
    /\ \E committed \in BOOLEAN :
        IF committed /\ main.cleanup_task = "cleanup_old_sessions"
        THEN /\ sessions' =
                    sessions \ expired_sessions(now - session_ttl_hours * 3600)
             /\ main' = [main EXCEPT !.cleanup_task = "ended", !.swept = main.pc]
        ELSE /\ main' = [main EXCEPT !.cleanup_task = "ended"]
             /\ UNCHANGED sessions
    /\ UNCHANGED notMain

\* A shutdown that does not await the task it cancelled.
cleanup_task_not_awaited(m) == TRUE

\* await _cleanup_task returns
cleanup_task_awaited(m) == m.cleanup_task = "ended"

\* main(): _handler.start() returns or raises, and the finally clause calls
\* shutdown(), which cancels the cleanup task and awaits it.
start_ends(how) ==
    /\ main.pc = "start"
    /\ main' = [main EXCEPT !.pc = "await_cleanup_task", !.stopped = how,
                            !.cancelled = TRUE]
    /\ UNCHANGED <<sessions, notMain>>

\* close_all from the next step of its iterator to the first aclose that is
\* awaited, to the RuntimeError of a dict that changed size, or to
\* _clients.clear() and the end of shutdown.
RECURSIVE close_all(_)
close_all(m) ==
    IF Cardinality(Live(m)) # m.iter.used THEN [m EXCEPT !.pc = "failed"]
    ELSE LET later == {i \in Live(m) : i > m.iter.pos} IN
        IF later = {} THEN [m EXCEPT !.pc = "complete", !.entries = <<>>]
        ELSE LET i == CHOOSE j \in later : \A k \in later : j <= k
                 object == m.entries[i].object
                 http == m.objects[object].http
             IN  IF http # 0 /\ ~m.https[http]
                 THEN [m EXCEPT !.pc = "aclose", !.iter.pos = i,
                                !.closing = object, !.https[http] = TRUE]
                 ELSE close_all([m EXCEPT !.iter.pos = i])

\* shutdown(): the cleanup task has ended; _handler.cleanup() calls close_all.
shutdown_cleanup ==
    /\ main.pc = "await_cleanup_task"
    /\ cleanup_task_awaited(main)
    /\ main' = close_all([main EXCEPT
                             !.iter = [pos |-> 0, used |-> Cardinality(Live(main))]])
    /\ UNCHANGED <<sessions, notMain>>

\* LangflowClient.close after its aclose: self._client = None; close_all goes
\* on.
aclose_returns ==
    /\ main.pc = "aclose"
    /\ main' = close_all([main EXCEPT !.objects[main.closing].http = 0,
                                      !.closing = 0])
    /\ UNCHANGED <<sessions, notMain>>

\* An event for a conversation with flow name arrives; its task waits for the
\* store.
conversation_event(t, name) ==
    /\ main.pc = "start"
    /\ main.handlers[t].pc = "idle"
    /\ \A u \in TaskIds : u < t => main.handlers[u].pc # "idle"
    /\ main' = [main EXCEPT !.handlers[t] = [NoHandler EXCEPT !.pc = "get_session",
                                                             !.flow = name]]
    /\ UNCHANGED <<sessions, notMain>>

\* LangflowClientManager.get_client, then LangflowClient._get_client at the
\* head of run_flow: the cached object or a new one, its HTTP client or a
\* new one when it has none or a closed one.
get_client(m, t) ==
    LET name == m.handlers[t].flow
        hit == Cached(m, name)
        object == IF hit = {} THEN Len(m.objects) + 1
                  ELSE m.entries[CHOOSE i \in hit : TRUE].object
        objects == IF hit = {}
                   THEN Append(m.objects, [name |-> name, http |-> 0])
                   ELSE m.objects
        entries == IF hit = {}
                   THEN Append(m.entries, [name |-> name, object |-> object,
                                           live |-> TRUE])
                   ELSE m.entries
        old == objects[object].http
        reuse == old # 0 /\ ~m.https[old]
        http == IF reuse THEN old ELSE Len(m.https) + 1
    IN  [m EXCEPT !.entries = entries,
                  !.objects = [objects EXCEPT ![object].http = http],
                  !.https = IF reuse THEN @ ELSE Append(@, FALSE),
                  !.handlers[t] = [@ EXCEPT !.pc = "post", !.object = object,
                                            !.http = http]]

\* _handle_message lines 270-279: get_client, send_message up to client.post
conversation_send(t) ==
    /\ LoopRuns(main)
    /\ main.handlers[t].pc = "get_session"
    /\ main' = get_client(main, t)
    /\ UNCHANGED <<sessions, notMain>>

\* The backend call of the task ends, with an answer or an error.
conversation_done(t) ==
    /\ LoopRuns(main)
    /\ main.handlers[t].pc = "post"
    /\ main' = [main EXCEPT !.handlers[t].pc = "done"]
    /\ UNCHANGED <<sessions, notMain>>

\* flows remove: LangflowClientManager.invalidate deletes the entry and does
\* not close the client.
invalidate_client(name) ==
    /\ LoopRuns(main)
    /\ Cached(main, name) # {}
    /\ main' = [main EXCEPT !.entries =
                    [i \in DOMAIN @ |->
                        IF @[i].name = name THEN [@[i] EXCEPT !.live = FALSE]
                        ELSE @[i]]]
    /\ UNCHANGED <<sessions, notMain>>

NextShutdown ==
    \/ periodic_cleanup_sleep
    \/ periodic_cleanup_sweep
    \/ periodic_cleanup_cancelled
    \/ \E how \in {"returned", "raised"} : start_ends(how)
    \/ shutdown_cleanup
    \/ aclose_returns
    \/ \E t \in TaskIds, name \in FlowNames : conversation_event(t, name)
    \/ \E t \in TaskIds : conversation_send(t)
    \/ \E t \in TaskIds : conversation_done(t)
    \/ \E name \in FlowNames : invalidate_client(name)

SpecShutdown == Init /\ [][NextShutdown]_vars

\* ---------------------------------------------------------- classification
\* A mention that opens thread 1, a command in that thread that carries an
\* API key, direct messages that start with a command verb, without and with
\* a mention, a word that only begins like a verb, a mention with no other
\* text, and a verb in capitals.
ClassifyEvents ==
    {Ev("C1", 1, 0, Hi, "U1", "channel"),
     Ev("C1", 2, 1, <<Mention(BotId), "flows", "add", "C", "<u1>", "f1", "k1">>,
        "U1", "channel"),
     Ev("D1", 1, 0, <<"help">>, "U1", "im"),
     Ev("D1", 2, 0, <<Mention(BotId), "FLOWS">>, "U1", "im"),
     Ev("C1", 3, 0, <<Mention(BotId), "helper">>, "U1", "channel"),
     Ev("C1", 4, 0, <<Mention(BotId)>>, "U1", "channel"),
     Ev("C1", 5, 0, <<Mention(BotId), "Help">>, "U1", "channel")}

ClassifyMentions ==
    {e \in ClassifyEvents : \E i \in 1..Len(e.text) : e.text[i] = Mention(BotId)}

\* Each message is delivered through either handler, one delivery after the
\* other, in any order.
NextClassify ==
    \/ \E t \in TaskIds, e \in ClassifyMentions : Quiet /\ on_app_mention(t, e)
    \/ \E t \in TaskIds, e \in ClassifyEvents : Quiet /\ on_message(t, e)
    \/ \E t \in TaskIds : Conversation(t, {"short"}, {"LangflowError"}, {TRUE})
    \/ \E t \in TaskIds : list_flows(t)
    \/ \E t \in TaskIds : add_flow(t)
    \/ \E t \in TaskIds : cmd_reply(t, TRUE)

SpecClassify == Init /\ [][NextClassify]_vars

\* ================================================================== claims
HandlerTasks == {t \in TaskIds : task[t].entry = "handle_message"}
DeliveriesOf(key) == {t \in HandlerTasks : message_key_of(task[t]) = key}
MessageKeys == {message_key_of(task[t]) : t \in HandlerTasks}

\* What one delivery has caused so far: a backend call or the execution of a
\* command, and posts to the outbound sink.
Processed(t) == task[t].call # NoCall \/ task[t].path = "command"
Dispatched(t) == task[t].posts # <<>>

\* C1 (as claimed): Idempotence.  While the clock has not advanced by a whole
\* suppression window, so that every redelivery arrives while an earlier
\* delivery of its key is in flight or less than dedup_window seconds after
\* it completed, all deliveries of one message key cause at most one backend
\* call or command execution and at most one dispatch.
C1_Idempotence ==
    now < dedup_window =>
        \A key \in MessageKeys :
            /\ Cardinality({t \in DeliveriesOf(key) : Processed(t)}) <= 1
            /\ Cardinality({t \in DeliveriesOf(key) : Dispatched(t)}) <= 1

\* C2 (as claimed): at most one task is inside the processing section for a
\* message key, and a delivery dropped because its key is being processed has
\* changed no store and sent nothing.
C2_AtMostOneProcessing ==
    /\ \A t1, t2 \in HandlerTasks :
        (t1 # t2 /\ InProcessing(t1) /\ InProcessing(t2))
            => message_key_of(task[t1]) # message_key_of(task[t2])
    /\ \A t \in HandlerTasks :
        task[t].outcome = "already_processing"
            => ~Processed(t) /\ ~Dispatched(t) /\ task[t].session_info = NoSession

\* C4: a conversation whose session is bound to a flow that still exists and
\* differs from the flow the channel resolves to calls the backend with the
\* client of the session's flow and with the token stored for the thread,
\* never with the channel's flow.
C4_SessionContinuity ==
    \A t \in HandlerTasks :
        (/\ task[t].call # NoCall
         /\ task[t].session_info.flow_name # task[t].channel_flow
         /\ task[t].original # "missing") =>
            /\ task[t].original = "found"
            /\ task[t].call.flow = task[t].session_info.flow_name
            /\ task[t].call.flow # task[t].channel_flow
            /\ task[t].call.session_id = task[t].session_info.session_id
            /\ \E r \in sessions :
                /\ r.thread_key = task[t].thread_key
                /\ r.session_id = task[t].call.session_id
                /\ r.flow_name = task[t].call.flow

C4_Witness ==
    \E t \in HandlerTasks :
        /\ task[t].original = "found"
        /\ task[t].call # NoCall
        /\ task[t].pc = "done"

\* C5 (as claimed): when the flow a thread's session is bound to has been
\* removed from the registry, the conversation makes no backend call and ends
\* with an error notice.
C5_MissingFlowIsError ==
    \A t \in HandlerTasks :
        task[t].original = "missing" =>
            /\ task[t].call = NoCall
            /\ (task[t].pc = "done" => task[t].outcome # "responded")

\* C6 (as claimed): two conversations that create the session of one thread
\* at the same time both get the one record; the losing create_session does
\* not raise and no event ends with the error notice of an unexpected
\* exception.
C6_CreationRaceResolved ==
    /\ \A key \in {r.thread_key : r \in sessions} :
        Cardinality(SessionRows(key)) = 1
    /\ \A t \in HandlerTasks :
        /\ task[t].raised # "IntegrityError"
        /\ \A i \in 1..Len(task[t].posts) : task[t].posts[i].kind # "unexpected"

\* ------------------------------------------------------------ session store
SessionCalls == {t \in TaskIds : task[t].entry = "get_or_create_session"}
thread_key_of(tk) == make_thread_key(tk.args.channel_id, tk.args.thread_ts)
Returned(t) == task[t].pc = "done" /\ task[t].outcome = "returned"

\* C3: session immutability.  No step (of the registry operations, of
\* get_or_create_session with any proposed flow, of the sweep) rewrites the
\* flow of a session record that persists, and what get_session reads for a
\* thread that has a record is the flow stored in it, not the flow proposed.
C3_Step ==
    /\ \A r \in sessions : \A r2 \in sessions' :
        (r.thread_key = r2.thread_key /\ r.session_id = r2.session_id)
            => r2.flow_name = r.flow_name
    /\ \A t \in SessionCalls :
        (task'[t].session_info # task[t].session_info
            /\ ~task'[t].session_info.is_new) =>
                \E r \in SessionRows(thread_key_of(task[t])) :
                    task'[t].session_info.flow_name = r.flow_name
C3_SessionImmutability == [][C3_Step]_vars

\* get_or_create_session proposing another flow has returned the flow of the
\* record, after the flow was removed from the registry by a call that
\* reported success.
C3_Witness ==
    \E t \in SessionCalls : \E t2 \in TaskIds :
        /\ Returned(t) /\ ~task[t].session_info.is_new
        /\ task[t].args.name # task[t].session_info.flow_name
        /\ task[t2].entry = "remove_flow" /\ task[t2].pc = "done" /\ task[t2].ret
        /\ task[t].session_info.flow_name = task[t2].args.name
        /\ \E r \in SessionRows(thread_key_of(task[t])) :
            r.flow_name = task[t].session_info.flow_name

\* C7: at most one session record per thread key, and the records of
\* different threads hold different tokens.
C7_SessionKeyUniqueness ==
    \A r1, r2 \in sessions :
        /\ r1.thread_key = r2.thread_key => r1 = r2
        /\ r1.session_id = r2.session_id => r1.thread_key = r2.thread_key

\* Two threads have records and an INSERT for a thread key that already has
\* one was rejected.
C7_Witness ==
    /\ Cardinality({r.thread_key : r \in sessions}) = 2
    /\ \E t \in TaskIds : task[t].pc = "done" /\ task[t].raised = "IntegrityError"

\* C8: token continuity of get_or_create_session.  Its SELECT on a thread
\* without a record leads to create_session, whose INSERT binds the thread to
\* the proposed flow under a token no record and no caller holds, returned
\* with is_new = TRUE; its SELECT on a thread with a record returns the
\* record's token and flow with is_new = FALSE whatever flow is proposed, and
\* its UPDATE sets updated_at of the thread's record to the current time and
\* changes nothing else.
C8_Step ==
    \A t \in SessionCalls :
        LET key == thread_key_of(task[t]) IN
        /\ (task[t].pc = "get_session" /\ task'[t].pc # "get_session") =>
            IF SessionRows(key) = {}
            THEN task'[t].pc = "create_session" /\ sessions' = sessions
            ELSE /\ task'[t].pc = "touch_session"
                 /\ \E r \in SessionRows(key) :
                        task'[t].session_info =
                            [session_id |-> r.session_id, flow_name |-> r.flow_name,
                             is_new |-> FALSE]
        /\ (task[t].pc = "touch_session" /\ task'[t].pc # "touch_session") =>
            /\ Returned(t)'
            /\ task'[t].session_info = task[t].session_info
            /\ sessions' = {IF r.thread_key = key THEN [r EXCEPT !.updated_at = now]
                            ELSE r : r \in sessions}
        /\ (task[t].pc = "create_session" /\ Returned(t)') =>
            LET si == task'[t].session_info IN
            /\ si.is_new /\ si.flow_name = task[t].args.name
            /\ \A r \in sessions : r.session_id # si.session_id
            /\ \A t2 \in TaskIds :
                task[t2].session_info # NoSession
                    => task[t2].session_info.session_id # si.session_id
            /\ sessions' = sessions \cup
                    {[thread_key |-> key, session_id |-> si.session_id,
                      flow_name |-> si.flow_name, created_at |-> now,
                      updated_at |-> now]}
C8_TokenContinuity == [][C8_Step]_vars

\* A first call created the record of a thread and a later call, proposing
\* another flow, got the same token and flow back and refreshed the record.
C8_Witness ==
    \E t1, t2 \in SessionCalls :
        /\ Returned(t1) /\ task[t1].session_info.is_new
        /\ Returned(t2) /\ ~task[t2].session_info.is_new
        /\ thread_key_of(task[t1]) = thread_key_of(task[t2])
        /\ task[t2].session_info.session_id = task[t1].session_info.session_id
        /\ task[t2].session_info.flow_name = task[t1].args.name
        /\ task[t2].args.name # task[t1].args.name
        /\ \E r \in SessionRows(thread_key_of(task[t1])) :
            r.updated_at = now /\ r.created_at < now

\* ------------------------------------------------------------ flow registry
\* C9: default-flow uniqueness.  At most one flow is the default in every
\* state reached by interleaved add_flow, update_flow, remove_flow and
\* set_default_flow calls, and the write of set_default_flow(Y) on a flow that
\* exists leaves Y the only default.
C9_Step ==
    /\ Cardinality(DefaultRows) <= 1
    /\ Cardinality(DefaultRows') <= 1
    /\ \A t \in TaskIds :
        (/\ task[t].pc = "set_default_write" /\ task'[t].pc # "set_default_write"
         /\ FlowRows(task[t].args.name) # {})
            => {r.name : r \in DefaultRows'} = {task[t].args.name}
C9_DefaultFlowUniqueness == [][C9_Step]_vars

\* add_flow added a default flow, then set_default_flow made another flow the
\* default.
C9_Witness ==
    \E t1, t2 \in TaskIds :
        /\ task[t1].entry = "add_flow" /\ task[t1].pc = "done"
        /\ task[t1].ret /\ task[t1].args.is_default
        /\ task[t2].entry = "set_default_flow" /\ task[t2].pc = "done" /\ task[t2].ret
        /\ task[t2].args.name # task[t1].args.name
        /\ {r.name : r \in DefaultRows} = {task[t2].args.name}
        /\ FlowRows(task[t1].args.name) # {}

\* ---------------------------------------------------------------- run_flow
Retried(o) == o.exc \in {"TimeoutException", "RequestError"} \/ o.status_code >= 500
ClientError(o) == o.exc = NoName /\ 400 <= o.status_code /\ o.status_code < 500
Success(o) == o.exc = NoName /\ o.status_code = 200 /\ o.json
Attempts == Len(run.log)

\* C10: retry bound.  run_flow never makes more than 1 + max_retries POSTs;
\* when every attempt met a 5xx answer, a timeout or a connection failure it
\* fails only after exactly 1 + max_retries POSTs, with the error of the last
\* one; a 4xx answer ends the call at once with LangflowAPIError, so a
\* backend that answers 4xx is asked exactly once; an attempt that returns
\* success is the last one and the call returns.
C10_RetryBound ==
    /\ Attempts <= 1 + run.max_retries
    /\ (run.pc = "raised" /\ \A i \in 1..Attempts : Retried(run.log[i])) =>
            /\ Attempts = 1 + run.max_retries
            /\ run.error = run.last_error
            /\ run.error \in BackendErrors
    /\ (run.pc \in {"post", "sleep"}) =>
            /\ Attempts < 1 + run.max_retries
            /\ \A i \in 1..Attempts : ~ClientError(run.log[i]) /\ ~Success(run.log[i])
    /\ \A i \in 1..Attempts :
        /\ ClientError(run.log[i]) =>
            /\ i = Attempts /\ run.pc = "raised"
            /\ run.error = "LangflowAPIError"
            /\ run.status_code = run.log[i].status_code
        /\ Success(run.log[i]) => i = Attempts /\ run.pc = "returned"
    /\ (Attempts > 0 /\ ClientError(run.log[1])) => Attempts = 1
    /\ run.pc = "returned" => Attempts > 0 /\ Success(run.log[Attempts])

\* A client with retries has failed after meeting 5xx answers, timeouts or
\* connection failures only.
C10_Witness ==
    /\ run.pc = "raised" /\ run.max_retries >= 2
    /\ Attempts = 1 + run.max_retries
    /\ \A i \in 1..Attempts : Retried(run.log[i])
    /\ \E i \in 1..Attempts : run.log[i].exc = "TimeoutException"
    /\ \E i \in 1..Attempts : run.log[i].status_code >= 500

\* ------------------------------------------------- processing and dispatch
\* C11: guaranteed admission cleanup.  The step that ends the processing of
\* an event, whatever its outcome, leaves the event's key outside _processing
\* and recorded in _processed_messages with the time of that step; every key
\* in _processing is the key of a task that is processing it.
C11_Step ==
    /\ \A t \in TaskIds :
        (task[t].pc # "done" /\ task'[t].pc = "done" /\ task'[t].entered) =>
            LET key == message_key_of(task'[t]) IN
            /\ key \notin processing'
            /\ key \in DOMAIN processed_messages'
            /\ processed_messages'[key] = now
    /\ \A key \in processing' :
        \E t \in HandlerTasks' : InProcessing(t)' /\ message_key_of(task'[t]) = key
C11_AdmissionCleanup == [][C11_Step]_vars

\* An event whose response could not be posted and an event that met a
\* backend error have both ended, and _processing is empty.
C11_Witness ==
    /\ processing = {}
    /\ \E t1, t2 \in HandlerTasks :
        /\ task[t1].pc = "done" /\ task[t1].entered
        /\ task[t1].raised = "SlackApiError"
        /\ task[t2].pc = "done" /\ task[t2].entered
        /\ task[t2].raised \in BackendErrors
        /\ processed_messages[message_key_of(task[t2])] > 0

\* The step in which task t gets past the duplicate checks and the bot's own
\* id, and meets the addressing rule of lines 183-212.
Addressing(t) ==
    /\ task[t].pc \in {"idle", "auth_test"}
    /\ task'[t].pc \notin {"idle", "auth_test"}
    /\ task'[t].entry = "handle_message"
    /\ task'[t].outcome \notin {"already_processing", "duplicate"}

\* The addressing rule on the event of a task, with the participation set of
\* the state the step starts in.
Addressed(tk) ==
    \/ tk.is_mention
    \/ tk.event.channel_type = "im"
    \/ /\ tk.event.thread_ts # 0
       /\ make_thread_key(tk.event.channel, tk.event.thread_ts) \in bot_threads

\* C12: an event that passed the duplicate checks gets past the addressing
\* step if and only if its author is not the bot and it is a mention, a
\* direct message, or a reply in a thread of the participation set; every
\* other event ends there, outside the processing section; a mention or a
\* direct message that goes on has channel:(thread_ts or ts) as thread key.
C12_Step ==
    \A t \in TaskIds : Addressing(t) =>
        LET tk == task'[t]
            e == tk.event
            dropped == tk.outcome \in {"self_authored", "not_addressed"}
        IN  /\ ~dropped <=> (e.user # BotId /\ Addressed(tk))
            /\ dropped => tk.pc = "done" /\ ~tk.entered
            /\ tk.entered /\ (tk.is_mention \/ e.channel_type = "im") =>
                   tk.thread_key = make_thread_key(e.channel,
                       IF e.thread_ts # 0 THEN e.thread_ts ELSE e.ts)
            /\ tk.entered /\ ~tk.is_mention /\ e.channel_type # "im" =>
                   tk.thread_key = make_thread_key(e.channel, e.thread_ts)

C12_AddressingRule == [][C12_Step]_vars

\* A mention opened thread C1:1 and was answered, and a plain reply in that
\* thread was taken.
C12_Witness ==
    \E t, u \in TaskIds :
        /\ task[t].is_mention /\ task[t].event.thread_ts = 0
        /\ task[t].thread_key = make_thread_key("C1", task[t].event.ts)
        /\ task[t].thread_key \in bot_threads
        /\ task[u].entered /\ ~task[u].is_mention
        /\ task[u].event.channel_type = "channel"
        /\ task[u].thread_key = task[t].thread_key

\* C13: an event that is not addressed (no mention, no direct message, a
\* thread outside the participation set or no thread), an event written by
\* the bot and an event whose text is empty, with or without the mention, end
\* in the step that classifies them: the task is over without a session, a
\* client, a backend call or a post, and the step changes neither the session
\* store, nor the flow registry, nor the client cache, nor the participation
\* set.
C13_Step ==
    \A t \in TaskIds :
        LET tk == task'[t]
            e == tk.event
        IN  /\ Addressing(t)
            /\ \/ ~Addressed(tk)
               \/ e.user = BotId
               \/ clean_message_text(e.text, BotId) = <<>>
            => /\ tk.pc = "done"
               /\ tk.session_info = NoSession /\ tk.call = NoCall
               /\ tk.posts = <<>> /\ tk.path = NoName
               /\ sessions' = sessions /\ uuid_seq' = uuid_seq
               /\ flows' = flows /\ channel_flows' = channel_flows
               /\ clients' = clients /\ bot_threads' = bot_threads

C13_DroppingLeavesNoTrace == [][C13_Step]_vars

\* A plain reply in a thread the bot has no part in was dropped, and so was
\* an event without text or an event of the bot.
C13_Witness ==
    \E t, u \in TaskIds :
        /\ task[t].outcome = "not_addressed" /\ task[t].event.thread_ts # 0
        /\ make_thread_key(task[t].event.channel, task[t].event.thread_ts)
               \notin bot_threads
        /\ task[u].outcome \in {"self_authored", "empty_text",
                                "empty_after_cleaning"}

\* C14: the participation set changes only in the step in which send_message
\* returns to a task of the conversation path, and then by the thread key of
\* that task; a task whose backend call raised, a task stopped by the missing
\* flow configuration and a task of the command path have never taken that
\* step.
C14_Step ==
    /\ bot_threads' # bot_threads =>
           \E t \in TaskIds :
               /\ task[t].pc = "await_response" /\ task[t].path = "conversation"
               /\ task[t].call # NoCall
               /\ task'[t].response # NoName /\ task'[t].raised = NoName
               /\ bot_threads' = bot_threads \cup {task[t].thread_key}
    /\ \A t \in TaskIds :
           \/ task'[t].raised \in BackendErrors
           \/ task'[t].outcome = "no_flow"
           \/ task'[t].path = "command"
           => task'[t].response = NoName

C14_MarkedAfterBackendSuccess == [][C14_Step]_vars

\* A conversation ended with a backend error, its notice was posted and its
\* thread was not marked; the same message, delivered again after the
\* suppression window, was answered and its thread is marked now.
C14_Witness ==
    \E t, u \in TaskIds :
        /\ task[u].pc = "done" /\ task[u].raised \in BackendErrors
        /\ task[u].call # NoCall /\ task[u].posts # <<>> /\ task[u].posts[1].ok
        /\ u < t /\ task[t].thread_key = task[u].thread_key
        /\ task[t].response # NoName /\ task[t].thread_key \in bot_threads

\* The threads an outbound message (chunk, notice or command reply) has been
\* posted to with success, and the threads of the conversations whose
\* send_message call has returned.
OkPosts ==
    UNION {{task[t].posts[i] :
               i \in {j \in 1..Len(task[t].posts) : task[t].posts[j].ok}} :
           t \in TaskIds}
PostedThreads == {make_thread_key(p.channel, p.thread_ts) : p \in OkPosts}
AnsweredThreads ==
    {task[t].thread_key : t \in {u \in TaskIds : task[u].response # NoName}}

\* C15 (as claimed): in every state the participation set is the set of the
\* threads to which at least one outbound message has been posted with
\* success.
C15_ParticipationIsRepliedThreads == bot_threads = PostedThreads

\* C15 (amended): in every state the participation set is the set of the
\* threads of the conversations whose send_message call has returned without
\* error, whether or not a message has been posted to them.
C15_ParticipationIsAnsweredThreads == bot_threads = AnsweredThreads

\* The thread of a conversation is marked although every post to it failed,
\* and the thread of a command is not marked although its reply was posted.
C15_Witness ==
    \E t, u \in TaskIds :
        /\ task[t].thread_key \in bot_threads /\ task[t].posts # <<>>
        /\ \A i \in 1..Len(task[t].posts) : ~task[t].posts[i].ok
        /\ task[t].pc = "done"
        /\ task[u].path = "command" /\ task[u].posts # <<>>
        /\ task[u].posts[1].ok
        /\ make_thread_key(task[u].event.channel, task[u].event.ts)
               \notin bot_threads

\* The posts of one kind a task has attempted, and the tasks whose
\* _send_response call is over (returned or raised).
PostsOf(t, kind) ==
    {i \in 1..Len(task[t].posts) : task[t].posts[i].kind = kind}
DispatchOver(t) ==
    /\ task[t].response # NoName
    /\ task[t].pc # "post_chunk"
    /\ ~(task[t].pc = "post_notice" /\ task[t].notice = "no_response")

\* C16: once _send_response is over, it has attempted at least one post: for
\* an empty text exactly one "no response" notice and no chunk; for any other
\* text no such notice and at least one chunk, one post for each chunk of
\* format_for_slack when no post failed.
C16_DispatchSendsSomething ==
    \A t \in TaskIds : DispatchOver(t) =>
        LET text == Responses[task[t].response]
            chunks == response_chunks[task[t].response]
        IN  /\ task[t].posts # <<>>
            /\ IF text = <<>>
               THEN /\ Cardinality(PostsOf(t, "no_response")) = 1
                    /\ PostsOf(t, "chunk") = {}
                    /\ task[t].posts[1].kind = "no_response"
               ELSE /\ PostsOf(t, "no_response") = {}
                    /\ Cardinality(PostsOf(t, "chunk")) >= 1
                    /\ Len(chunks) >= 1
                    /\ task[t].raised = NoName =>
                           Cardinality(PostsOf(t, "chunk")) = Len(chunks)

\* One answer was empty and got its notice; the same message, delivered again
\* after the suppression window, got an answer of MaxChunks chunks, all
\* posted.
C16_Witness ==
    \E t, u \in TaskIds :
        /\ task[t].pc = "done" /\ task[t].response = "empty"
        /\ Len(task[t].posts) = 1
        /\ task[u].pc = "done" /\ task[u].response = "long"
        /\ task[u].raised = NoName
        /\ Cardinality(PostsOf(u, "chunk")) = MaxChunks

\* C17: the chunk posts of a task are its first posts; the i-th of them posts
\* chunk i of the response, to the channel of the event and to its thread
\* root; each of them but the last has succeeded; and when the last one has
\* failed, no further chunk follows and the task carries the exception of the
\* sink out of _send_response.
C17_OrderedChunkDelivery ==
    \A t \in TaskIds :
        LET posts == task[t].posts
            k == Cardinality(PostsOf(t, "chunk"))
        IN  /\ PostsOf(t, "chunk") = 1..k
            /\ k > 0 => /\ task[t].response # NoName
                        /\ k <= Len(response_chunks[task[t].response])
            /\ \A i \in 1..k :
                   /\ posts[i].chunk = i
                   /\ posts[i].channel = task[t].event.channel
                   /\ posts[i].thread_ts = reply_ts(task[t])
                   /\ i < k => posts[i].ok
            /\ k > 0 /\ ~posts[k].ok =>
                   /\ task[t].raised = "SlackApiError"
                   /\ task[t].pc # "post_chunk"
            /\ k > 0 /\ posts[k].ok /\ task[t].pc # "post_chunk" =>
                   /\ k = Len(response_chunks[task[t].response])
                   /\ task[t].raised = NoName

\* The first chunk of an answer was posted, the post of the second one failed
\* and the task ended with the notice of an unexpected error.
C17_Witness ==
    \E t \in TaskIds :
        /\ task[t].pc = "done" /\ task[t].response = "long"
        /\ Len(task[t].posts) = 3
        /\ task[t].posts[1].ok /\ ~task[t].posts[2].ok
        /\ task[t].posts[2].kind = "chunk"
        /\ task[t].posts[3].kind = "unexpected"

\* The tasks in which a statement of the processing section raised what is
\* not an error of the backend: the store, the registry or the sink.
Unexpected(t) ==
    /\ task[t].entered
    /\ task[t].raised \notin BackendErrors \cup {NoName}

\* C18: a task in which an unexpected exception was raised goes on to the
\* generic notice only; once it is over it has ended like any other task, it
\* has attempted that notice exactly once, as its last post, and its key is
\* in the admission set only if another task is processing the same key.
C18_FailureContainment ==
    \A t \in TaskIds : Unexpected(t) =>
        LET generic == IF task[t].path = "command" THEN "cmd_error"
                       ELSE "unexpected"
            posts == task[t].posts
        IN  /\ task[t].pc \in {"stop_typing", "post_notice", "cmd_error", "done"}
            /\ task[t].pc \in {"post_notice", "cmd_error"} =>
                   task[t].notice = generic /\ PostsOf(t, generic) = {}
            /\ task[t].pc = "done" =>
                   /\ task[t].outcome \in {"unexpected", "command"}
                   /\ PostsOf(t, generic) = {Len(posts)}
                   /\ message_key_of(task[t]) \in processing =>
                          \E u \in TaskIds \ {t} :
                              /\ InProcessing(u)
                              /\ message_key_of(task[u]) = message_key_of(task[t])

\* The store raised in one conversation and the task ended after its notice;
\* an event with another key, delivered afterwards, was admitted and
\* processed.
C18_Witness ==
    \E t, u \in TaskIds :
        /\ t < u /\ task[t].pc = "done" /\ task[t].raised = "OperationalError"
        /\ Len(task[t].posts) = 1
        /\ message_key_of(task[u]) # message_key_of(task[t])
        /\ task[u].pc = "done" /\ task[u].entered /\ Processed(u)
        /\ task[u].posts # <<>> /\ task[u].raised = NoName

\* The conversation tasks whose get_channel_flow call has returned.
FlowResolved(t) ==
    /\ task[t].path = "conversation"
    /\ task[t].pc \notin {"get_channel_flow", "get_channel_flow_row",
                          "get_default_flow"}
    /\ task[t].raised # "OperationalError"

\* C19: while the channel of a conversation event has no binding and the
\* registry has no default flow, the task of that event goes from
\* get_channel_flow to the configuration-needed notice and ends after it: one
\* post, no session read, created or refreshed, no client, no backend call,
\* and the thread is not marked.
C19_ConfigurationMissing ==
    \A t \in TaskIds :
        /\ FlowResolved(t)
        /\ get_channel_flow_name(task[t].event.channel) = NoName
        /\ get_default_flow = NoFlow
        => /\ task[t].pc \in {"post_notice", "done"}
           /\ task[t].pc = "post_notice" =>
                  task[t].notice = "no_flow" /\ task[t].posts = <<>>
           /\ task[t].pc = "done" =>
                  /\ task[t].outcome = "no_flow"
                  /\ Len(task[t].posts) = 1 /\ task[t].posts[1].kind = "no_flow"
           /\ task[t].flow_config = NoFlow /\ task[t].session_info = NoSession
           /\ SessionRows(task[t].thread_key) = {} /\ uuid_seq = 0
           /\ task[t].client = NoClient /\ task[t].call = NoCall
           /\ DOMAIN clients = {}
           /\ task[t].thread_key \notin bot_threads

\* A mention in a channel without flow ended after the configuration-needed
\* notice, which was posted.
C19_Witness ==
    \E t \in TaskIds :
        /\ task[t].pc = "done" /\ task[t].outcome = "no_flow"
        /\ task[t].entered /\ task[t].posts # <<>> /\ task[t].posts[1].ok
        /\ flows = {} /\ channel_flows = {}

\* C20 (as claimed): every backend call that starts goes to the endpoint the
\* registry holds for its flow at that moment, and every client in the cache
\* is built from the configuration the registry holds for its name.
C20_Step ==
    /\ \A t \in TaskIds :
           task[t].call = NoCall /\ task'[t].call # NoCall =>
               /\ get_flow(task'[t].call.flow) # NoFlow
               /\ get_flow(task'[t].call.flow).langflow_url =
                      task'[t].call.langflow_url
    /\ \A n \in DOMAIN clients' :
           get_flow(n)' # NoFlow =>
               clients'[n].langflow_url = get_flow(n)'.langflow_url

C20_ClientCacheCoherence == [][C20_Step]_vars

\* get_channel_flow run without interruption: the flow of the binding when
\* there is a binding, found or not, else the default flow.
resolve_channel(channel_id) ==
    LET name == get_channel_flow_name(channel_id)
    IN  IF name # NoName THEN get_flow(name) ELSE get_default_flow

\* The documented resolution of a channel whose binding, if any, names
\* flow_name: that flow when it exists, else the default flow, else none.
Expected(flow_name) ==
    IF flow_name # NoName /\ get_flow(flow_name) # NoFlow THEN get_flow(flow_name)
    ELSE get_default_flow

\* C21 (as claimed): remove_flow of an existing name returns True, deletes
\* the flow and every binding to it and keeps every session; a channel that
\* was bound to it resolves to the default flow afterwards, or to none; and
\* remove_flow of an absent name returns False and changes neither the flows
\* nor the bindings nor the sessions.
C21_Step ==
    \A t \in TaskIds :
        task[t].pc = "remove_flow" /\ task'[t].pc # "remove_flow" =>
            LET name == task[t].args.name
                bound == {r.channel_id : r \in {b \in channel_flows :
                                                   b.flow_name = name}}
            IN  /\ sessions' = sessions
                /\ IF FlowRows(name) # {}
                   THEN /\ task'[t].ret
                        /\ flows' = flows \ FlowRows(name)
                        /\ channel_flows' =
                               {b \in channel_flows : b.flow_name # name}
                        /\ \A c \in bound : resolve_channel(c)' = get_default_flow'
                   ELSE /\ ~task'[t].ret
                        /\ flows' = flows
                        /\ channel_flows' = channel_flows

C21_RemoveCascade == [][C21_Step]_vars

\* C22 (as claimed): when get_channel_flow returns to the handler, what it
\* returns is the flow of the binding it read if that flow exists, else (no
\* binding, or a binding whose flow does not resolve) the default flow if
\* there is one, else nothing.
C22_Step ==
    \A t \in TaskIds :
        /\ task[t].pc \in {"get_channel_flow_row", "get_default_flow"}
        /\ task'[t] # task[t]
        => task'[t] = Resolved(task[t],
                               Expected(IF task[t].pc = "get_channel_flow_row"
                                        THEN task[t].channel_flow ELSE NoName))

C22_ResolveForChannel == [][C22_Step]_vars

\* C23: add_flow for a name that already exists returns False and leaves the
\* registry as it was: no field of the existing flow is overwritten and, also
\* with is_default = True, the default flow is the one it was before.
C23_Step ==
    \A t \in TaskIds :
        /\ task[t].pc = "add_flow"
        /\ task'[t].pc # "add_flow"
        /\ FlowRows(task[t].args.name) # {}
        => /\ ~task'[t].ret
           /\ flows' = flows
           /\ channel_flows' = channel_flows
           /\ get_default_flow' = get_default_flow

C23_AddExistingName == [][C23_Step]_vars

\* An add_flow of the existing name A with is_default = True was rejected and
\* flow B is the default.
C23_Witness ==
    \E t \in TaskIds :
        /\ task[t].pc = "done"
        /\ task[t].entry = "add_flow"
        /\ task[t].args.name = "A"
        /\ task[t].args.is_default
        /\ ~task[t].ret
        /\ get_default_flow # NoFlow
        /\ get_default_flow.name = "B"

\* C24 (as claimed): when set_channel_flow returns, either the named flow does
\* not exist, False is returned and no binding was written, or the flow
\* exists, True is returned and the channel has exactly one binding, to that
\* flow.
C24_Step ==
    \A t \in TaskIds :
        /\ task[t].pc \in {"set_channel_get_flow", "set_channel_write"}
        /\ task'[t].pc \notin {"set_channel_get_flow", "set_channel_write"}
        => LET a == task[t].args IN
            IF get_flow(a.name) = NoFlow
            THEN /\ ~task'[t].ret
                 /\ channel_flows' = channel_flows
            ELSE /\ task'[t].ret
                 /\ {b \in channel_flows' : b.channel_id = a.channel_id}
                        = {[channel_id |-> a.channel_id, flow_name |-> a.name]}

C24_SetChannelBinding == [][C24_Step]_vars

\* The mutating commands: flows add, flows remove, flows default, channel set,
\* channel reset.
Mutating(event) ==
    /\ Len(event.text) >= 3
    /\ SubSeq(event.text, 2, 3) \in
           {<<"flows", "add">>, <<"flows", "remove">>, <<"flows", "default">>,
            <<"channel", "set">>, <<"channel", "reset">>}

\* The author of the event is refused: an admin list is configured and the
\* author is not in it.
Refused(event) == admin_users # {} /\ event.user \notin admin_users

\* The task was admitted with a command.
CommandTask(tk) ==
    /\ tk.entry = "handle_message"
    /\ tk.pc \notin {"idle", "auth_test"}
    /\ tk.posts # <<>> \/ tk.pc = "cmd_reply" \/ tk.pc \in
           {"list_flows", "flow_info", "add_flow", "remove_flow",
            "set_default_select", "set_default_flow", "channel_info",
            "channel_info_binding", "channel_info_flow", "set_channel_get_flow",
            "set_channel_write", "remove_channel_flow", "reset_get_default"}

\* C25: a mutating command of an author who is not in a non-empty admin list
\* is answered with the refusal notice, and no step of it changes the flows,
\* the bindings or the client cache; every other command (a non-mutating
\* one, any command of a listed author, any command when the admin list is
\* empty) is not refused.
C25_Step ==
    \A t \in TaskIds :
        task'[t] # task[t] /\ CommandTask(task'[t]) =>
            LET tk == task'[t]
                gated == Mutating(tk.event) /\ Refused(tk.event)
            IN  /\ gated => /\ flows' = flows
                            /\ channel_flows' = channel_flows
                            /\ clients' = clients
                /\ tk.posts # <<>> =>
                       (gated <=> tk.posts[1].kind = "no_permission")
                /\ tk.pc = "cmd_reply" =>
                       (gated <=> tk.notice = "no_permission")

C25_PermissionGating == [][C25_Step]_vars

\* With the admin list {U1}, U2's "flows remove A" was refused and flow A is
\* there, and with it U2's "flows" was answered; or with an empty admin list
\* U2's "flows remove A" removed flow A.
C25_Witness ==
    \/ /\ admin_users = {"U1"}
       /\ get_flow("A") # NoFlow
       /\ \E t, u \in TaskIds :
            /\ task[t].pc = "done" /\ task[u].pc = "done"
            /\ task[t].event.user = "U2" /\ task[u].event.user = "U2"
            /\ task[t].event.text = <<Mention(BotId), "flows", "remove", "A">>
            /\ task[t].posts # <<>> /\ task[t].posts[1].kind = "no_permission"
            /\ task[u].event.text = <<Mention(BotId), "flows">>
            /\ task[u].posts # <<>> /\ task[u].posts[1].kind = "flows_list"
    \/ /\ admin_users = {}
       /\ get_flow("A") = NoFlow
       /\ \E t \in TaskIds :
            /\ task[t].pc = "done"
            /\ task[t].event.user = "U2"
            /\ task[t].event.text = <<Mention(BotId), "flows", "remove", "A">>
            /\ task[t].posts # <<>> /\ task[t].posts[1].kind = "removed"

\* C26 (as claimed): when cleanup_old_sessions returns, it has deleted exactly
\* the sessions whose updated_at precedes its cutoff, it has kept every other
\* one, and the count it returns is the number of sessions it deleted.
C26_Step ==
    \A t \in TaskIds :
        /\ task[t].pc \in {"cleanup_count", "cleanup_delete"}
        /\ task'[t].pc = "done"
        => /\ sessions' = sessions \ expired_sessions(task[t].cutoff)
           /\ task'[t].count = Cardinality(sessions \ sessions')

C26_TtlSweep == [][C26_Step]_vars

\* C27 (as claimed): every chunk format_for_slack returns is at most
\* max_length long and none is empty; an empty text gives no chunk and a text
\* of at most max_length characters is returned as it is, as the only chunk.
C27_ChunkBounds ==
    parser.pc = "returned" =>
        /\ \A i \in DOMAIN parser.chunks :
              /\ Len(parser.chunks[i]) <= parser.max_length
              /\ parser.chunks[i] # <<>>
        /\ parser.message = <<>> => parser.chunks = <<>>
        /\ parser.message # <<>> /\ Len(parser.message) <= parser.max_length
              => parser.chunks = <<parser.message>>

\* The characters of a text that are not whitespace, in their order.
NonWhitespace(s) == SelectSeq(s, LAMBDA c : c \notin Whitespace)

RECURSIVE Flatten(_)
Flatten(chunks) == IF chunks = <<>> THEN <<>> ELSE Head(chunks) \o Flatten(Tail(chunks))

\* The text is its chunks, one after the other in their order, with nothing
\* but whitespace after each of them.
RECURSIVE Rejoins(_, _)
Rejoins(text, chunks) ==
    IF chunks = <<>> THEN lstrip(text) = <<>>
    ELSE LET chunk == Head(chunks) IN
         /\ Len(chunk) <= Len(text)
         /\ SubSeq(text, 1, Len(chunk)) = chunk
         /\ Rejoins(lstrip(SubSeq(text, Len(chunk) + 1, Len(text))), Tail(chunks))

\* C28: the chunks format_for_slack returns are consecutive pieces of the
\* text in their order; put together with the whitespace that was removed
\* between them they give the text again (up to the whitespace at its ends),
\* and the characters that are not whitespace are those of the text, each
\* once and in the same order.
C28_ChunkingRoundTrip ==
    parser.pc = "returned" =>
        /\ Rejoins(parser.message, parser.chunks)
        /\ NonWhitespace(Flatten(parser.chunks)) = NonWhitespace(parser.message)

\* A text was split in three chunks, one split at whitespace that was
\* removed and one in the middle of a word.
C28_Witness ==
    /\ parser.pc = "returned"
    /\ Len(parser.chunks) = 3
    /\ Len(Flatten(parser.chunks)) < Len(parser.message)
    /\ \E i \in 1..2 : Len(parser.chunks[i]) = parser.max_length
                        /\ parser.max_length > 1

\* The member key of an object and the first item of a list; Absent when the
\* value is of another type, lacks the key or is empty.
Member(v, key) == IF v.type = "dict" THEN v.value[key] ELSE Absent
Item(v) == IF v.type = "list" /\ v.value # <<>> THEN v.value[1] ELSE Absent

\* The fields of the five strategies, in their order: artifacts.message,
\* messages[0].message, results.message.text, results.message.data.text,
\* results.message.
StrategyFields(payload) ==
    LET result == Item(Member(Item(Member(payload, "outputs")), "outputs"))
        message == Member(Member(result, "results"), "message")
    IN  <<Member(Member(result, "artifacts"), "message"),
          Member(Item(Member(result, "messages")), "message"),
          Member(message, "text"),
          Member(Member(message, "data"), "text"),
          message>>

\* The text of a field, trimmed; empty when the field is no string.
Trimmed(v) == IF v.type = "str" THEN rstrip(lstrip(v.value)) ELSE <<>>

\* The strategies whose field is a string that is not empty after trimming.
Matching(payload) ==
    {i \in 1..5 : Trimmed(StrategyFields(payload)[i]) # <<>>}

\* C29: extract_message returns the trimmed value of the first strategy, in
\* the order artifacts.message, messages[0].message, results.message.text,
\* results.message.data.text, results.message, whose field is a string that
\* is not empty after trimming; fields that are absent, of another type or
\* whitespace only are passed over.
C29_ExtractionPriority ==
    parser.pc = "returned" =>
        LET matching == Matching(parser.payload)
        IN  matching # {} =>
                parser.text =
                    Trimmed(StrategyFields(parser.payload)
                                [CHOOSE i \in matching : \A j \in matching : i <= j])

\* A body with an artifacts.message text and a results.message string gave
\* the artifacts text; and one whose artifacts.message is whitespace only and
\* whose messages are of the wrong type gave results.message.data.text.
C29_Witness ==
    /\ parser.pc = "returned"
    /\ LET fields == StrategyFields(parser.payload) IN
        \/ /\ fields[1] = JString(<<" ", "a", " ">>)
           /\ fields[5] = JString(<<" ", "s", " ">>)
           /\ parser.text = <<"a">>
        \/ /\ fields[1] = JString(<<" ">>)
           /\ fields[2] = Absent
           /\ fields[3] = JNumber
           /\ parser.text = <<"d">>

\* C30: for a body in which no strategy matches (wrapper arrays missing or
\* empty, values of the wrong type at any level, no usable field)
\* extract_message returns the empty string and send_message returns it and
\* raises nothing; the handler then sends the "no response" notice and
\* nothing else.
C30_ExtractionNeverFails ==
    Matching(parser.payload) = {} =>
        /\ parser.pc = "returned" => parser.text = <<>>
        /\ \A t \in TaskIds :
              task[t].response = "extracted" =>
                  /\ task[t].raised = NoName
                  /\ parser.pc = "returned"
                  /\ \/ task[t].pc = "post_notice" /\ task[t].notice = "no_response"
                     \/ /\ Len(task[t].posts) = 1
                        /\ task[t].posts[1].kind = "no_response"

\* A body whose first output is no object, and one whose result is a number,
\* were answered with the "no response" notice.
C30_Witness ==
    /\ parser.payload \in {JDict([outputs |-> JList(<<JNumber>>)]), Wrapped(JNumber)}
    /\ \E t \in TaskIds :
          /\ task[t].pc = "done"
          /\ task[t].response = "extracted"
          /\ task[t].outcome = "responded"
          /\ Len(task[t].posts) = 1
          /\ task[t].posts[1].kind = "no_response"

\* The wording of the notice for each kind of backend error.
Wording(raised) ==
    IF raised = "LangflowTimeoutError" THEN "timeout"
    ELSE IF raised = "LangflowAPIError" THEN "api_error"
    ELSE "backend_error"

\* C31: a task whose backend call failed posts no chunk; it goes on to one
\* notice, with the wording of the kind of the error, and once it is over it
\* has attempted exactly that one post, whether the post succeeded or not.
C31_BackendErrorTranslation ==
    \A t \in TaskIds : task[t].raised \in BackendErrors =>
        /\ task[t].pc \in {"stop_typing", "post_notice", "done"}
        /\ PostsOf(t, "chunk") = {}
        /\ task[t].response = NoName
        /\ task[t].pc = "stop_typing" => task[t].posts = <<>>
        /\ task[t].pc = "post_notice" =>
               task[t].notice = Wording(task[t].raised) /\ task[t].posts = <<>>
        /\ task[t].pc = "done" =>
               /\ Len(task[t].posts) = 1
               /\ task[t].posts[1].kind = Wording(task[t].raised)
               /\ task[t].posts[1].thread_ts = reply_ts(task[t])
               /\ task[t].outcome = Wording(task[t].raised)

\* A backend call failed with a timeout and its notice was posted; the same
\* message, delivered again later, failed with an API error and the post of
\* its notice failed, and the task ended all the same.
C31_Witness ==
    \E t, u \in TaskIds :
        /\ task[t].pc = "done" /\ task[t].raised = "LangflowTimeoutError"
        /\ task[t].posts # <<>> /\ task[t].posts[1].ok
        /\ task[u].pc = "done" /\ task[u].raised = "LangflowAPIError"
        /\ task[u].posts # <<>> /\ ~task[u].posts[1].ok

\* The error run_flow makes of one failed attempt.
ErrorOf(o) ==
    IF o.exc = "TimeoutException" THEN "LangflowTimeoutError"
    ELSE IF o.exc = "RequestError" THEN "LangflowError"
    ELSE "LangflowAPIError"

\* C32: when run_flow has made all its 1 + max_retries attempts and each met
\* a timeout, a connection failure or a 5xx answer, it raises the error of the
\* last attempt: of the kind of that attempt and, for a 5xx answer, with the
\* status code of that attempt, whatever the earlier attempts met.
C32_LastObservedError ==
    /\ run.pc = "raised"
    /\ Attempts = 1 + run.max_retries
    /\ \A i \in 1..Attempts : Retried(run.log[i])
    => LET last == run.log[Attempts] IN
        /\ run.error = ErrorOf(last)
        /\ last.exc = NoName => run.status_code = last.status_code

\* A call failed after a 503 answer, a timeout and a 500 answer, in that
\* order, with the API error of status 500.
C32_Witness ==
    /\ run.pc = "raised"
    /\ Attempts = 3
    /\ run.log[1].status_code = 503
    /\ run.log[2].exc = "TimeoutException"
    /\ run.log[3].status_code = 500
    /\ run.error = "LangflowAPIError" /\ run.status_code = 500

\* An answer with a 2xx status and a JSON body.
Success2xx(o) ==
    o.exc = NoName /\ 200 <= o.status_code /\ o.status_code <= 299 /\ o.json

\* C33 (as claimed): an attempt that is answered with a status from 200 to
\* 299 and a JSON body is the last one and run_flow returns; it is neither
\* retried nor turned into an error, and LangflowAPIError is raised only for
\* an answer outside 200..299.
C33_Every2xxIsSuccess ==
    /\ \A i \in 1..Attempts :
          Success2xx(run.log[i]) => i = Attempts /\ run.pc = "returned"
    /\ run.pc = "raised" /\ run.error = "LangflowAPIError" =>
          ~(200 <= run.status_code /\ run.status_code <= 299)

\* The deliveries that passed the duplicate checks, the author check and the
\* addressing rule.
Admitted(t) ==
    /\ task[t].entry = "handle_message"
    /\ task[t].pc # "auth_test"
    /\ task[t].outcome \notin {"already_processing", "duplicate", "self_authored",
                               "not_addressed"}

\* The text of a delivery without the mention of the bot.
Stripped(t) ==
    SelectSeq(task[t].event.text, LAMBDA tok : tok # Mention(BotId))

StartsWithVerb(words) ==
    /\ words # <<>>
    /\ words[1] \in {"help", "Help", "HELP", "flows", "Flows", "FLOWS",
                     "channel", "Channel", "CHANNEL"}

\* C34: Command classification.  An admitted delivery takes the command path
\* if and only if it came through the mention handler and its text without
\* the mention starts with help, flows or channel as a whole word, in any
\* case; every other admitted delivery with text left takes the conversation
\* path; a delivery with no text left takes neither path, calls no backend and
\* posts nothing.
C34_CommandClassification ==
    \A t \in TaskIds : Admitted(t) =>
        IF Stripped(t) = <<>>
        THEN /\ task[t].path = NoName
             /\ task[t].call = NoCall
             /\ task[t].posts = <<>>
        ELSE task[t].path =
                 IF task[t].is_mention /\ StartsWithVerb(Stripped(t))
                 THEN "command" ELSE "conversation"

\* A direct message that starts with a verb has gone to the backend, and a
\* mention with a verb in capitals has run as a command.
C34_Witness ==
    /\ \E t \in TaskIds :
           /\ Admitted(t) /\ ~task[t].is_mention
           /\ task[t].event.channel_type = "im"
           /\ StartsWithVerb(Stripped(t))
           /\ task[t].path = "conversation" /\ task[t].call # NoCall
    /\ \E t \in TaskIds :
           /\ Admitted(t) /\ task[t].is_mention
           /\ StartsWithVerb(Stripped(t))
           /\ Stripped(t)[1] \in {"FLOWS", "Help"}
           /\ task[t].path = "command" /\ task[t].posts # <<>>

Mentions(t) ==
    \E i \in 1..Len(task[t].event.text) : task[t].event.text[i] = Mention(BotId)

\* C37 (as claimed): a mentioned command is never forwarded to the backend.
\* No delivery of a message that mentions the bot and whose text without the
\* mention starts with a command verb makes a backend call with that text,
\* through whichever handler and in whichever order its events arrive, in
\* channels, direct messages and threads the bot has taken part in.
C37_CommandNeverForwarded ==
    \A t \in TaskIds :
        task[t].entry = "handle_message" /\ Mentions(t)
        /\ StartsWithVerb(Stripped(t))
            => task[t].call.message # Stripped(t)

\* C38 (as claimed): binding referential integrity.  In every reachable state,
\* under any interleaving of set_channel_flow, remove_flow and add_flow in
\* concurrent tasks, the flow name of every row of channel_flows is the name
\* of a row of flows.
C38_BindingIntegrity ==
    \A b \in channel_flows : \E f \in flows : f.name = b.flow_name

\* C40: Chunking terminates.  For every text and every maximum length of at
\* least 1, every iteration of the chunking loop that does not leave the loop
\* makes the remaining text strictly shorter, also when its split point is
\* index 0, and the function returns.
C40_Step ==
    parser.pc = "while" /\ parser'.pc = "while"
        => Len(parser'.remaining) < Len(parser.remaining)

C40_ChunkingTerminates == [][C40_Step]_vars /\ <>(parser.pc = "returned")

\* The first iteration had its split point at index 0 and has run.
C40_Witness ==
    /\ parser.pc \in {"while", "returned"}
    /\ Len(parser.message) > parser.max_length
    /\ split_point_of(parser.message, parser.max_length) = 0
    /\ Len(parser.chunks) >= 1 /\ parser.chunks[1] = <<>>
    /\ Len(parser.remaining) < Len(parser.message)

\* The loop returns what the function returns.
LoopReturnsChunks ==
    parser.pc = "returned" =>
        parser.chunks = format_for_slack(parser.message, parser.max_length)

\* The steps a task of the continuity specification takes once delivered.
StepOf(u) ==
    \/ Conversation(u, {"short"}, {"LangflowError"}, {TRUE})
    \/ get_original_flow(u)
    \/ remove_flow(u)
    \/ remove_channel_flow(u)
    \/ reset_get_default(u)
    \/ cmd_reply(u, TRUE)

Suppressed(key) ==
    \/ key \in processing
    \/ key \in DOMAIN processed_messages
           /\ now - processed_messages[key] < dedup_window

\* C35: Independent event processing.  While the task of one event waits for
\* its backend call (send_message, its retries and backoff waits included),
\* an event with another message key that is neither under way nor recently
\* processed is taken when it is delivered, and a task of another message key
\* that is under way can take its next step.
C35_IndependentProcessing ==
    \A t \in TaskIds : task[t].pc = "await_response" =>
        \A u \in TaskIds \ {t} :
            /\ task[u].pc \notin {"idle", "done"}
                /\ message_key_of(task[u]) # message_key_of(task[t])
                    => ENABLED StepOf(u)
            /\ Fresh(u) =>
                   \A e \in ContinuityEvents :
                       LET key == make_message_key(e.channel, e.ts) IN
                       key # message_key_of(task[t]) /\ ~Suppressed(key)
                           => ENABLED (/\ on_app_mention(u, e)
                                       /\ task'[u].outcome \notin
                                              {"already_processing", "duplicate"})

\* The task that created the session of the thread is still waiting for the
\* backend, and a later event of another key, which found that session, has
\* been answered.
C35_Witness ==
    \E t, u \in TaskIds :
        /\ t < u
        /\ task[t].pc = "await_response" /\ task[t].session_info.is_new
        /\ message_key_of(task[u]) # message_key_of(task[t])
        /\ task[u].pc = "done" /\ task[u].outcome = "responded"
        /\ ~task[u].session_info.is_new
        /\ task[u].session_info.session_id = task[t].session_info.session_id
        /\ task[u].call # NoCall
        /\ task[u].posts # <<>> /\ task[u].posts[1].ok

\* Some HTTP client is closed, or the cache is cleared, in this step.
ClosesClients ==
    \/ \E h \in DOMAIN main.https : ~main.https[h] /\ main'.https[h]
    \/ Live(main) # {} /\ main'.entries = <<>>

\* C36: Shutdown order.  When _handler.start() ends, by returning or by
\* raising, shutdown starts and cancels the periodic cleanup task; no cached
\* client is closed and the cache is not cleared before that task has ended;
\* when shutdown has completed the cache is empty, the task has ended, and no
\* sweep has run since.
C36_Step ==
    /\ main.pc = "start" /\ main'.pc # "start"
        => main'.pc = "await_cleanup_task" /\ main'.cancelled
    /\ ClosesClients
        => /\ main.pc \in {"await_cleanup_task", "aclose"}
           /\ main.cleanup_task = "ended"
    /\ main'.pc = "complete"
        => /\ main'.cleanup_task = "ended"
           /\ Live(main') = {}
           /\ main'.swept # "complete"

C39_NoClientLeftOpen ==
    main.pc = "complete" => \A h \in DOMAIN main.https : main.https[h]
====
